---- MODULE Spec2Model ----
(***************************************************************************)
(* Model of the beer price crawlers: the text helpers of helpers.py and    *)
(* the record assembly loops of the five crawlers (bhx, mega, lotte,       *)
(* kingfood, coop).                                                        *)
(*                                                                         *)
(* A Python str is modelled as a sequence of characters, and a character   *)
(* as a TLA+ string token:                                                 *)
(*   - a printable ASCII character is the one-character string itself;     *)
(*   - "TAB" = U+0009, "LF" = U+000A, "CR" = U+000D, "NBSP" = U+00A0 (all   *)
(*     str.isspace);                                                       *)
(*   - a precomposed Vietnamese letter is <base>:<marks>, the marks in the *)
(*     order of its canonical decomposition, g = grave U+0300, a = acute   *)
(*     U+0301, c = circumflex U+0302, t = tilde U+0303, d = dot below      *)
(*     U+0323, h = horn U+031B: "u:g" = U+00F9, "o:ca" = U+1ED1,           *)
(*     "o:dc" = U+1ED9, "o:h" = U+01A1, ...;                               *)
(*     the upper case letter has the upper case base: "U:g" = U+00D9;      *)
(*   - a bare combining mark is ":g", ":a", ":c", ":t", ":d", ":h";         *)
(*   - "d:-" = U+0111 (d with stroke), "D:-" = U+0110;                      *)
(*   - "rsquo" = U+2019, "dong" = U+20AB, "3:ar" = U+0663 (a decimal digit *)
(*     outside ASCII, value 3).                                            *)
(* None is the value NoneVal.  Python ints are TLA+ integers.              *)
(***************************************************************************)
EXTENDS Integers, Sequences, FiniteSets, TLC

VARIABLES
    running,    \* the crawler whose loop is running, or "none"
    items,      \* the page elements its for loop has processed so far
    products,   \* the running crawler's products list
    driver,     \* the browser driver of the crawler call: "none", "open", "quit"
    quits,      \* how often the crawler call has called driver.quit()
    outcome,    \* how the last crawler call ended: "none", "returned", "raised"
    called,     \* which helper has been called on arg ("none" before)
    arg,        \* the argument of a direct helper call
    ret,        \* what the helper returned
    raised,     \* the exception the call raised instead, or "none"
    main,       \* where main() stands: "none" (not running), "start", "loop", "done",
                \* "raised" (an exception has left it)
    sources,    \* args.sources, the names given on the command line
    srcs,       \* main's list of sources still to crawl
    log,        \* the messages main's loop has logged, oldest first
    all_products,   \* main's combined list
    csv_file    \* what write_products_to_csv has written, NoFile before

vars == <<running, items, products, driver, quits, outcome, called, arg, ret, raised,
          main, sources, srcs, log, all_products, csv_file>>

\* The state of a crawler call and the state of a direct helper call.
crawlVars == <<running, items, products, driver, quits, outcome>>
callVars == <<called, arg, ret, raised>>
\* The state of main().
mainVars == <<main, sources, srcs, log, all_products, csv_file>>

(***************************************************************************)
(* Bounds of the model.                                                    *)
(***************************************************************************)
MaxStrLen == 3      \* length of the generated argument strings
MaxItems == 2       \* elements on one crawled page
MaxWords == 3       \* words of the generated argument phrases

\* None: a value that is no string (no character is the token "None").
NoneVal == <<"None">>

(***************************************************************************)
(* Characters.                                                             *)
(***************************************************************************)
LowerAZ == <<"a","b","c","d","e","f","g","h","i","j","k","l","m",
             "n","o","p","q","r","s","t","u","v","w","x","y","z">>
UpperAZ == <<"A","B","C","D","E","F","G","H","I","J","K","L","M",
             "N","O","P","Q","R","S","T","U","V","W","X","Y","Z">>
AsciiDigits == <<"0","1","2","3","4","5","6","7","8","9">>

\* The precomposed letters the model knows: lower case, upper case, and the
\* canonical decomposition (NFD) of each.
Precomposed ==
    << [lo |-> "u:g",  up |-> "U:g",  base |-> "u", BASE |-> "U", marks |-> <<":g">>],
       [lo |-> "a:g",  up |-> "A:g",  base |-> "a", BASE |-> "A", marks |-> <<":g">>],
       [lo |-> "o:g",  up |-> "O:g",  base |-> "o", BASE |-> "O", marks |-> <<":g">>],
       [lo |-> "u:a",  up |-> "U:a",  base |-> "u", BASE |-> "U", marks |-> <<":a">>],
       [lo |-> "u:t",  up |-> "U:t",  base |-> "u", BASE |-> "U", marks |-> <<":t">>],
       [lo |-> "a:d",  up |-> "A:d",  base |-> "a", BASE |-> "A", marks |-> <<":d">>],
       [lo |-> "o:ca", up |-> "O:ca", base |-> "o", BASE |-> "O", marks |-> <<":c", ":a">>],
       [lo |-> "o:dc", up |-> "O:dc", base |-> "o", BASE |-> "O", marks |-> <<":d", ":c">>],
       [lo |-> "e:dc", up |-> "E:dc", base |-> "e", BASE |-> "E", marks |-> <<":d", ":c">>],
       [lo |-> "e:ca", up |-> "E:ca", base |-> "e", BASE |-> "E", marks |-> <<":c", ":a">>],
       [lo |-> "o:h",  up |-> "O:h",  base |-> "o", BASE |-> "O", marks |-> <<":h">>],
       [lo |-> "i:d",  up |-> "I:d",  base |-> "i", BASE |-> "I", marks |-> <<":d">>],
       [lo |-> "i:a",  up |-> "I:a",  base |-> "i", BASE |-> "I", marks |-> <<":a">>] >>

CombiningMarks == {":g", ":a", ":c", ":t", ":d", ":h"}

Range(f) == {f[i] : i \in DOMAIN f}

\* str.lower, one character: the table of the characters it changes.
LowerTable ==
    [c \in Range(UpperAZ) \cup {Precomposed[i].up : i \in DOMAIN Precomposed} \cup {"D:-"} |->
        IF c = "D:-" THEN "d:-"
        ELSE IF c \in Range(UpperAZ) THEN LowerAZ[CHOOSE i \in 1..26 : UpperAZ[i] = c]
        ELSE Precomposed[CHOOSE i \in DOMAIN Precomposed : Precomposed[i].up = c].lo]

\* str.upper, one character.
UpperTable ==
    [c \in Range(LowerAZ) \cup {Precomposed[i].lo : i \in DOMAIN Precomposed} \cup {"d:-"} |->
        IF c = "d:-" THEN "D:-"
        ELSE IF c \in Range(LowerAZ) THEN UpperAZ[CHOOSE i \in 1..26 : LowerAZ[i] = c]
        ELSE Precomposed[CHOOSE i \in DOMAIN Precomposed : Precomposed[i].lo = c].up]

\* unicodedata.normalize("NFD", c), one character: the characters that decompose.
NFDTable ==
    [c \in {Precomposed[i].lo : i \in DOMAIN Precomposed}
           \cup {Precomposed[i].up : i \in DOMAIN Precomposed} |->
        LET i == CHOOSE j \in DOMAIN Precomposed :
                     Precomposed[j].lo = c \/ Precomposed[j].up = c
        IN  <<IF Precomposed[i].lo = c THEN Precomposed[i].base ELSE Precomposed[i].BASE>>
            \o Precomposed[i].marks]

LowerCh(c) == IF c \in DOMAIN LowerTable THEN LowerTable[c] ELSE c
UpperCh(c) == IF c \in DOMAIN UpperTable THEN UpperTable[c] ELSE c
NFDCh(c) == IF c \in DOMAIN NFDTable THEN NFDTable[c] ELSE <<c>>

\* unicodedata.category(c) == "Mn"
IsMn(c) == c \in CombiningMarks

\* str.isspace, which is also what \s matches in a str pattern.
WhitespaceChars == {" ", "TAB", "LF", "CR", "NBSP"}
IsSpaceCh(c) == c \in WhitespaceChars

\* What \d matches in a str pattern: the decimal digits of Unicode.
DigitTable ==
    [c \in Range(AsciiDigits) \cup {"3:ar"} |->
        IF c = "3:ar" THEN 3 ELSE (CHOOSE i \in 1..10 : AsciiDigits[i] = c) - 1]
IsDigitCh(c) == c \in DOMAIN DigitTable

\* [a-z] and [0-9] of an (unflagged) character class.
IsAsciiLower(c) == c \in Range(LowerAZ)
IsAsciiDigit(c) == c \in Range(AsciiDigits)

(***************************************************************************)
(* Strings.                                                                *)
(***************************************************************************)
\* s[i:] and s[:j] of Python, 0-based like the source.
From(s, i) == SubSeq(s, i + 1, Len(s))
Upto(s, j) == SubSeq(s, 1, j)

RECURSIVE MapConcat(_, _)
\* "".join(F(ch) for ch in s), F given as a function from characters to strings.
MapConcat(F, s) == IF s = <<>> THEN <<>> ELSE F[Head(s)] \o MapConcat(F, Tail(s))

\* str.lower and str.upper.
lower(s) == [i \in 1..Len(s) |-> LowerCh(s[i])]
upper(s) == [i \in 1..Len(s) |-> UpperCh(s[i])]

RECURSIVE lstrip(_)
lstrip(s) == IF s # <<>> /\ IsSpaceCh(Head(s)) THEN lstrip(Tail(s)) ELSE s
RECURSIVE rstrip(_)
rstrip(s) == IF s # <<>> /\ IsSpaceCh(s[Len(s)]) THEN rstrip(Upto(s, Len(s) - 1)) ELSE s
\* str.strip()
strip(s) == rstrip(lstrip(s))

\* needle in s, both strings.
StartsWithAt(s, i, needle) ==
    /\ i + Len(needle) <= Len(s)
    /\ \A k \in 1..Len(needle) : s[i + k] = needle[k]
Contains(s, needle) ==
    \E i \in 0..(Len(s) - Len(needle)) : \A k \in 1..Len(needle) : s[i + k] = needle[k]
startswith(s, needle) == StartsWithAt(s, 0, needle)

(***************************************************************************)
(* helpers.normalize_name                                                  *)
(***************************************************************************)
\* unicodedata.combining(c): the canonical combining class, 0 for a starter.
CombiningClass(c) ==
    IF c = ":h" THEN 216
    ELSE IF c = ":d" THEN 220
    ELSE IF c \in CombiningMarks THEN 230
    ELSE 0

RECURSIVE Decompose(_)
\* The canonical decomposition of every character of s, in place.
Decompose(s) == IF s = <<>> THEN <<>> ELSE NFDCh(Head(s)) \o Decompose(Tail(s))

\* The canonical ordering of the marks: two neighbours are exchanged while the
\* first has a higher combining class than the second and the second is no
\* starter, which sorts every run of marks by class and keeps the order of
\* marks of one class.
CanonicalOrder[s \in Seq(STRING)] ==
    LET Bad == {i \in 1..(Len(s) - 1) :
                   /\ CombiningClass(s[i + 1]) > 0
                   /\ CombiningClass(s[i]) > CombiningClass(s[i + 1])}
    IN  IF Bad = {} THEN s
        ELSE LET i == CHOOSE j \in Bad : \A k \in Bad : j <= k
             IN  CanonicalOrder[[k \in 1..Len(s) |->
                     IF k = i THEN s[i + 1] ELSE IF k = i + 1 THEN s[i] ELSE s[k]]]

\* unicodedata.normalize("NFD", s)
NFD(s) == CanonicalOrder[Decompose(s)]

\* "".join(ch for ch in normalized if unicodedata.category(ch) != "Mn")
DropMarks(s) == SelectSeq(s, LAMBDA ch : ~IsMn(ch))

\* A substitution that keeps every digit \d knows, not only 0-9.
SubNonAlnum_AnyDigit(s) ==
    [i \in 1..Len(s) |->
        IF IsAsciiLower(s[i]) \/ IsDigitCh(s[i]) \/ IsSpaceCh(s[i]) THEN s[i] ELSE " "]

\* re.sub(r"[^a-z0-9\s]", " ", s)
SubNonAlnum(s) ==
    [i \in 1..Len(s) |->
        IF IsAsciiLower(s[i]) \/ IsAsciiDigit(s[i]) \/ IsSpaceCh(s[i]) THEN s[i] ELSE " "]

RECURSIVE CollapseSpaces(_)
\* re.sub(r"\s+", " ", s): every maximal run of whitespace becomes one " ".
CollapseSpaces(s) ==
    IF s = <<>> THEN <<>>
    ELSE IF IsSpaceCh(Head(s))
         THEN <<" ">> \o CollapseSpaces(lstrip(s))
         ELSE <<Head(s)>> \o CollapseSpaces(Tail(s))

\* normalize_name without the strip that ends it.
normalize_name_NoFinalStrip(text) ==
    LET lowered == strip(lower(text))
        normalized == SubNonAlnum(DropMarks(NFD(lowered)))
    IN  CollapseSpaces(normalized)

normalize_name(text) ==
    LET lowered == strip(lower(text))
        normalized == SubNonAlnum(DropMarks(NFD(lowered)))
    IN  strip(CollapseSpaces(normalized))

(***************************************************************************)
(* Regular expression pieces shared by the extractors.                     *)
(***************************************************************************)
IsDigitAt(s, i) == i < Len(s) /\ IsDigitCh(s[i + 1])

\* \d+ is greedy: the (0-based) index just after the run of digits at i,
\* the first index from i on that holds no digit.
DigitsEnd(s, i) ==
    CHOOSE j \in i..(IF i > Len(s) THEN i ELSE Len(s)) :
        ~IsDigitAt(s, j) /\ \A k \in i..(j - 1) : IsDigitAt(s, k)

\* \s* is greedy: the index just after the run of whitespace at i.
SpacesEnd(s, i) ==
    CHOOSE j \in i..(IF i > Len(s) THEN i ELSE Len(s)) :
        /\ ~(j < Len(s) /\ IsSpaceCh(s[j + 1]))
        /\ \A k \in i..(j - 1) : IsSpaceCh(s[k + 1])

\* (\d+)\s*(w1|w2|...) matches at i.  Giving back digits or blanks never
\* helps: the character after a shorter run is a digit or a blank, which
\* starts no word.
NumberThenWordAt(s, i, words) ==
    /\ IsDigitAt(s, i)
    /\ \E w \in words : StartsWithAt(s, SpacesEnd(s, DigitsEnd(s, i)), w)

\* (w1|w2|...)\s*(\d+) matches at i.
WordThenNumberAt(s, i, words) ==
    \E w \in words : /\ StartsWithAt(s, i, w)
                     /\ IsDigitAt(s, SpacesEnd(s, i + Len(w)))

RECURSIVE SearchNumberThenWord(_, _, _)
\* re.search(r"(\d+)\s*(w1|w2)", s): the leftmost position from i on where
\* the pattern matches, or -1.
SearchNumberThenWord(s, i, words) ==
    IF i >= Len(s) THEN -1
    ELSE IF NumberThenWordAt(s, i, words) THEN i
    ELSE SearchNumberThenWord(s, i + 1, words)

RECURSIVE SearchWordThenNumber(_, _, _)
\* re.search(r"(w1|w2)\s*(\d+)", s): the leftmost position from i on where
\* the pattern matches, or -1.
SearchWordThenNumber(s, i, words) ==
    IF i >= Len(s) THEN -1
    ELSE IF WordThenNumberAt(s, i, words) THEN i
    ELSE SearchWordThenNumber(s, i + 1, words)

\* The leftmost position from i on of a character of chars in s, or -1.
IndexOfAny(s, i, chars) ==
    LET Hits == {j \in i..(Len(s) - 1) : s[j + 1] \in chars}
    IN  IF Hits = {} THEN -1 ELSE CHOOSE j \in Hits : \A k \in Hits : j <= k

(***************************************************************************)
(* helpers.extract_capacity, extract_unit, extract_packing_quantity        *)
(***************************************************************************)
\* An extractor with one pattern for both units: the leftmost capacity wins.
extract_capacity_Leftmost(text) ==
    LET lowered == lower(text)
        match == SearchNumberThenWord(lowered, 0, {<<"m","l">>, <<"c","l">>})
        end == DigitsEnd(lowered, match)
        unit == SubSeq(lowered, SpacesEnd(lowered, end) + 1, SpacesEnd(lowered, end) + 2)
    IN  IF match # -1 THEN SubSeq(lowered, match + 1, end) \o unit ELSE <<>>

extract_capacity(text) ==
    LET lowered == lower(text)
        match_ml == SearchNumberThenWord(lowered, 0, {<<"m","l">>})
        match_cl == SearchNumberThenWord(lowered, 0, {<<"c","l">>})
    IN  IF match_ml # -1
        THEN SubSeq(lowered, match_ml + 1, DigitsEnd(lowered, match_ml)) \o <<"m","l">>
        ELSE IF match_cl # -1
        THEN SubSeq(lowered, match_cl + 1, DigitsEnd(lowered, match_cl)) \o <<"c","l">>
        ELSE <<>>

\* An extractor that returns the keyword as it searched for it.
extract_unit_Keyword(text) ==
    LET lowered == lower(text)
    IN  IF Contains(lowered, <<"t","h","u:g","n","g">>) THEN <<"t","h","u:g","n","g">>
        ELSE IF Contains(lowered, <<"l","o","n">>) THEN <<"l","o","n">>
        ELSE IF Contains(lowered, <<"c","h","a","i">>) THEN <<"c","h","a","i">>
        ELSE <<>>

\* An extractor that answers with the keyword standing first in the name.
extract_unit_FirstKeyword(text) ==
    LET lowered == lower(text)
        find(w) == IF Contains(lowered, w)
                   THEN CHOOSE k \in 0..Len(lowered) :
                            /\ StartsWithAt(lowered, k, w)
                            /\ \A j \in 0..(k - 1) : ~StartsWithAt(lowered, j, w)
                   ELSE Len(lowered) + 1
        thung == find(<<"t","h","u:g","n","g">>)
        lon == find(<<"l","o","n">>)
        chai == find(<<"c","h","a","i">>)
    IN  IF thung <= Len(lowered) /\ thung < lon /\ thung < chai THEN <<"T","h","u:g","n","g">>
        ELSE IF lon <= Len(lowered) /\ lon < chai THEN <<"L","o","n">>
        ELSE IF chai <= Len(lowered) THEN <<"C","h","a","i">>
        ELSE <<>>

extract_unit(text) ==
    LET lowered == lower(text)
    IN  IF Contains(lowered, <<"t","h","u:g","n","g">>) THEN <<"T","h","u:g","n","g">>
        ELSE IF Contains(lowered, <<"l","o","n">>) THEN <<"L","o","n">>
        ELSE IF Contains(lowered, <<"c","h","a","i">>) THEN <<"C","h","a","i">>
        ELSE <<>>

\* The words of rule 2's alternation (thung | loc | hop | hop with marks).
PackWords ==
    { <<"t","h","u:g","n","g">>, <<"l","o:ca","c">>, <<"h","o","p">>, <<"h","o:dc","p">> }

RECURSIVE FirstNonCapacityNumber(_, _)
\* Rule 3's loop over re.finditer(r"(\d+)", lowered) from index i on: the
\* first run of digits whose rest of the string, stripped, does not start
\* with "ml" or "cl".
FirstNonCapacityNumber(s, i) ==
    IF i >= Len(s) THEN <<>>
    ELSE IF ~IsDigitAt(s, i) THEN FirstNonCapacityNumber(s, i + 1)
    ELSE LET end == DigitsEnd(s, i)
             after == strip(From(s, end))
         IN  IF startswith(after, <<"m","l">>) \/ startswith(after, <<"c","l">>)
             THEN FirstNonCapacityNumber(s, end)
             ELSE SubSeq(s, i + 1, end)

\* An extractor that tries the pack words before "lon" and "chai".
extract_packing_quantity_PackWordFirst(text) ==
    LET lowered == lower(text)
        match == SearchNumberThenWord(lowered, 0, {<<"l","o","n">>, <<"c","h","a","i">>})
        match2 == SearchWordThenNumber(lowered, 0, PackWords)
        word2 == CHOOSE w \in PackWords : StartsWithAt(lowered, match2, w)
        num2 == SpacesEnd(lowered, match2 + Len(word2))
    IN  IF match2 # -1 THEN SubSeq(lowered, num2 + 1, DigitsEnd(lowered, num2))
        ELSE IF match # -1 THEN SubSeq(lowered, match + 1, DigitsEnd(lowered, match))
        ELSE FirstNonCapacityNumber(lowered, 0)

extract_packing_quantity(text) ==
    LET lowered == lower(text)
        match == SearchNumberThenWord(lowered, 0, {<<"l","o","n">>, <<"c","h","a","i">>})
        match2 == SearchWordThenNumber(lowered, 0, PackWords)
        word2 == CHOOSE w \in PackWords : StartsWithAt(lowered, match2, w)
        num2 == SpacesEnd(lowered, match2 + Len(word2))
    IN  IF match # -1 THEN SubSeq(lowered, match + 1, DigitsEnd(lowered, match))
        ELSE IF match2 # -1 THEN SubSeq(lowered, num2 + 1, DigitsEnd(lowered, num2))
        ELSE FirstNonCapacityNumber(lowered, 0)

(***************************************************************************)
(* helpers.extract_price_int                                               *)
(***************************************************************************)
\* s.split(c, maxsplit=1)[0]
BeforeFirst(s, c) ==
    LET cuts == {k \in 1..Len(s) : s[k] = c}
    IN  IF cuts = {} THEN s
        ELSE Upto(s, (CHOOSE k \in cuts : \A j \in cuts : k <= j) - 1)

\* re.sub(r"\D", "", s)
OnlyDigits(s) == SelectSeq(s, IsDigitCh)

RECURSIVE int(_)
\* int(digits) for a non-empty string of digits.
int(digits) ==
    IF digits = <<>> THEN 0
    ELSE 10 * int(Upto(digits, Len(digits) - 1)) + DigitTable[digits[Len(digits)]]

\* A parser that reads the digits up to the first separator only.
extract_price_int_LeadingDigits(price_text) ==
    IF price_text = <<>> THEN 0
    ELSE LET money_part == BeforeFirst(price_text, "d:-")
             digits == Upto(money_part, DigitsEnd(money_part, 0))
         IN  IF digits # <<>> THEN int(digits) ELSE 0

\* A parser that cuts the text at its last "d" with a stroke, not its first.
extract_price_int_LastSplit(price_text) ==
    IF price_text = <<>> THEN 0
    ELSE LET cuts == {k \in 1..Len(price_text) : price_text[k] = "d:-"}
             last == CHOOSE k \in cuts : \A j \in cuts : j <= k
             money_part == IF cuts = {} THEN price_text ELSE Upto(price_text, last - 1)
             digits == OnlyDigits(money_part)
         IN  IF digits # <<>> THEN int(digits) ELSE 0

extract_price_int(price_text) ==
    IF price_text = <<>> THEN 0
    ELSE LET money_part == BeforeFirst(price_text, "d:-")
             digits == OnlyDigits(money_part)
         IN  IF digits # <<>> THEN int(digits) ELSE 0

(***************************************************************************)
(* helpers.BRANDS and helpers.extract_brand                                *)
(***************************************************************************)
BRANDS ==
    << <<"H","e","i","n","e","k","e","n">>,
       <<"T","i","g","e","r">>,
       <<"S","a:g","i"," ","G","o:g","n">>,
       <<"B","u","d","w","e","i","s","e","r">>,
       <<"H","o","e","g","a","a","r","d","e","n">>,
       <<"1","6","6","4"," ","B","l","a","n","c">>,
       <<"L","a","r","u","e">>,
       <<"H","u","d","a">>,
       <<"R","e","d"," ","R","u","b","y">>,
       <<"S","a","p","p","o","r","o">>,
       <<"B","i","a"," ","V","i","e:dc","t">>,
       <<"3","3","3">>,
       <<"C","o","r","o","n","a">>,
       <<"S","a","n"," ","M","i","g","u","e","l">>,
       <<"E","d","e","l","w","e","i","s","s">>,
       <<"B","e","c","k","rsquo","s">>,
       <<"C","a","r","l","s","b","e","r","g">>,
       <<"S","t","r","o","n","g","b","o","w">>,
       <<"S","o","m","e","r","s","b","y">>,
       <<"L","a:d","c"," ","V","i","e:dc","t">>,
       <<"T","u","b","o","r","g">>,
       <<"C","h","i","l","l">>,
       <<"H","a:g"," ","N","o:dc","i">>,
       <<"C","h","a","n","g">>,
       <<"T","r","u:a","c"," ","B","a:d","c","h"," ","S","l","e","e","k">>,
       <<"H","a","l","i","d","a">>,
       <<"C","h","i","m","a","y">>,
       <<"E","a","s","t"," ","W","e","s","t">>,
       <<"R","e","d"," ","H","o","r","s","e">>,
       <<"T","s","i","n","g","t","a","o">>,
       <<"A","s","a","h","i">>,
       <<"B","u","d","w","e","i","s","e","r">>,
       <<"S","a","n","w","a","l","d">>,
       <<"D","u","v","e","l">>,
       <<"P","a","u","l","a","n","e","r">>,
       <<"D","a","l","a","t"," ","C","i","d","e","r">>,
       <<"T","r","u:a","c"," ","B","a:d","c","h">>,
       <<"A","b","b","a","y","e">>,
       <<"P","i","l","s","n","e","r"," ","U","r","q","u","e","l","l">>,
       <<"G"," ","D","e"," ","G","r","a","n","d"," ","C","r","u">>,
       <<"O","r","i","o","n">>,
       <<"S","t","."," ","S","e","b","a","s","t","i","a","a","n">>,
       <<"N","g","u:t"," ","H","a:g","n","h">>,
       <<"C","h","e","r","i","e">> >>

\* brand.lower() for every brand of the list.
LoweredBrands == [i \in DOMAIN BRANDS |-> lower(BRANDS[i])]

RECURSIVE FirstListedBrandFrom(_, _)
\* for brand in BRANDS: if brand.lower() in lowered: return brand (from the
\* i-th brand of the list on); return ""
FirstListedBrandFrom(lowered, i) ==
    IF i > Len(BRANDS) THEN <<>>
    ELSE IF Contains(lowered, LoweredBrands[i]) THEN BRANDS[i]
    ELSE FirstListedBrandFrom(lowered, i + 1)

\* A scan that keeps the last entry of the list found in the name.
FirstListedBrand_LastInList(lowered) ==
    LET found == {i \in 1..Len(BRANDS) : Contains(lowered, LoweredBrands[i])}
    IN  IF found = {} THEN <<>>
        ELSE BRANDS[CHOOSE i \in found : \A j \in found : j <= i]

FirstListedBrand(lowered) == FirstListedBrandFrom(lowered, 1)

\* An extractor that looks the name up in the vocabulary before the overrides.
extract_brand_VocabularyFirst(text) ==
    LET lowered == lower(text)
        has(w) == Contains(lowered, w)
    IN  IF FirstListedBrand(lowered) # <<>> THEN FirstListedBrand(lowered)
        ELSE IF has(<<"1","6","6","4">>) \/ has(<<"b","l","a","n","c">>)
              \/ has(<<"b","l","a","n","c","e">>)
        THEN <<"1","6","6","4"," ","B","l","a","n","c">>
        ELSE IF has(<<"h","a","n","o","i">>) \/ has(<<"h","a:g"," ","n","o:dc","i">>)
        THEN <<"H","a:g"," ","N","o:dc","i">>
        ELSE IF has(<<"s","a","i","g","o","n">>) \/ has(<<"s","a:g","i"," ","g","o:g","n">>)
        THEN <<"S","a:g","i"," ","G","o:g","n">>
        ELSE IF has(<<"c","a","r","l","s","b","e","r","g">>)
                   \/ has(<<"c","a","r","s","b","e","r","g">>)
        THEN <<"C","a","r","l","s","b","e","r","g">>
        ELSE IF has(<<"f","a","r"," ","e","a","s","t">>)
                   \/ has(<<"e","a","s","t"," ","w","e","s","t">>)
                   \/ has(<<"e","a","s","t","w","e","s","t">>)
        THEN <<"E","a","s","t"," ","W","e","s","t">>
        ELSE IF has(<<"b","u","d"," ">>) \/ startswith(lowered, <<"b","u","d">>)
        THEN <<"B","u","d","w","e","i","s","e","r">>
        ELSE IF has(<<"d","a","l","a","t"," ","c","i","d","e","r">>)
                   \/ has(<<"d","a"," ","l","a","t"," ","c","i","d","e","r">>)
        THEN <<"D","a","l","a","t"," ","C","i","d","e","r">>
        ELSE <<>>

extract_brand(text) ==
    LET lowered == lower(text)
        has(w) == Contains(lowered, w)
    IN  IF has(<<"1","6","6","4">>) \/ has(<<"b","l","a","n","c">>)
              \/ has(<<"b","l","a","n","c","e">>)
        THEN <<"1","6","6","4"," ","B","l","a","n","c">>
        ELSE IF has(<<"h","a","n","o","i">>) \/ has(<<"h","a:g"," ","n","o:dc","i">>)
        THEN <<"H","a:g"," ","N","o:dc","i">>
        ELSE IF has(<<"s","a","i","g","o","n">>) \/ has(<<"s","a:g","i"," ","g","o:g","n">>)
        THEN <<"S","a:g","i"," ","G","o:g","n">>
        ELSE IF has(<<"c","a","r","l","s","b","e","r","g">>)
                   \/ has(<<"c","a","r","s","b","e","r","g">>)
        THEN <<"C","a","r","l","s","b","e","r","g">>
        ELSE IF has(<<"f","a","r"," ","e","a","s","t">>)
                   \/ has(<<"e","a","s","t"," ","w","e","s","t">>)
                   \/ has(<<"e","a","s","t","w","e","s","t">>)
        THEN <<"E","a","s","t"," ","W","e","s","t">>
        ELSE IF has(<<"b","u","d"," ">>) \/ startswith(lowered, <<"b","u","d">>)
        THEN <<"B","u","d","w","e","i","s","e","r">>
        ELSE IF has(<<"d","a","l","a","t"," ","c","i","d","e","r">>)
                   \/ has(<<"d","a"," ","l","a","t"," ","c","i","d","e","r">>)
        THEN <<"D","a","l","a","t"," ","C","i","d","e","r">>
        ELSE FirstListedBrand(lowered)

(***************************************************************************)
(* helpers.extract_promotion_from_text                                     *)
(***************************************************************************)
\* (\d+(?:[.,]\d+)?)\s*% at i: the index just after the number when the
\* pattern matches there, -1 when it does not.  With a separator and digits
\* after the first run the longer number is tried first; without them, or
\* when no "%" follows the longer number, the first run alone is tried.
PercentNumberEnd(s, i) ==
    IF ~IsDigitAt(s, i) THEN -1
    ELSE LET j == DigitsEnd(s, i)
             long == j < Len(s) /\ s[j + 1] \in {".", ","} /\ IsDigitAt(s, j + 1)
             k == DigitsEnd(s, j + 1)
             pct(e) == StartsWithAt(s, SpacesEnd(s, e), <<"%">>)
         IN  IF long /\ pct(k) THEN k
             ELSE IF pct(j) THEN j
             ELSE -1

RECURSIVE FindAllPercent(_, _)
\* re.findall of that pattern from index i on: the matched numbers, left to
\* right, each search resuming just after the "%" of the match before.
FindAllPercent(s, i) ==
    IF i >= Len(s) THEN <<>>
    ELSE LET e == PercentNumberEnd(s, i)
         IN  IF e = -1 THEN FindAllPercent(s, i + 1)
             ELSE <<SubSeq(s, i + 1, e)>> \o FindAllPercent(s, SpacesEnd(s, e) + 1)

\* float() and int() read any decimal digit; str() writes ASCII digits.
AsciiOf(d) == [i \in 1..Len(d) |-> AsciiDigits[DigitTable[d[i]] + 1]]

\* str(n) for an int n >= 0.
RECURSIVE str(_)
str(n) == IF n < 10 THEN <<AsciiDigits[n + 1]>> ELSE str(n \div 10) \o <<AsciiDigits[(n % 10) + 1]>>

(***************************************************************************)
(* float: the double nearest to a decimal number, and its rendering.       *)
(* A natural number of any size is the sequence of its decimal digits,     *)
(* the most significant first, without leading zeros; 0 is <<>>.  The      *)
(* steps that are repeated are functions, [ ]: their arguments are worked  *)
(* out once, before the step.                                              *)
(***************************************************************************)
BigNat == Seq(0..9)

Zeros(n) == [i \in 1..n |-> 0]

\* The number without its leading zeros.
BigTrim(a) ==
    LET NZ == {i \in 1..Len(a) : a[i] # 0}
    IN  IF NZ = {} THEN <<>>
        ELSE SubSeq(a, CHOOSE i \in NZ : \A j \in NZ : i <= j, Len(a))

\* 2 * a: the carry into a digit is 1 exactly when the digit after it is 5 or more.
BigDouble(a) ==
    (IF a # <<>> /\ a[1] >= 5 THEN <<1>> ELSE <<>>)
    \o [i \in 1..Len(a) |->
           ((2 * a[i]) % 10) + (IF i < Len(a) /\ a[i + 1] >= 5 THEN 1 ELSE 0)]

\* a \div 2: the remainder carried into a digit is the parity of the digit before it.
BigHalf(a) ==
    SubSeq([i \in 1..Len(a) |->
               ((IF i > 1 THEN (a[i - 1] % 2) * 10 ELSE 0) + a[i]) \div 2],
           IF a # <<>> /\ a[1] = 1 THEN 2 ELSE 1, Len(a))

BigOdd(a) == a # <<>> /\ a[Len(a)] % 2 = 1

\* a + 1: the digits after the last one that is not 9 become 0.
BigInc(a) ==
    IF \A i \in 1..Len(a) : a[i] = 9 THEN <<1>> \o Zeros(Len(a))
    ELSE [i \in 1..Len(a) |->
             IF \E j \in (i + 1)..Len(a) : a[j] # 9 THEN a[i]
             ELSE IF a[i] = 9 THEN 0
             ELSE a[i] + 1]

\* a < b
BigLess(a, b) ==
    \/ Len(a) < Len(b)
    \/ /\ Len(a) = Len(b)
       /\ \E i \in 1..Len(a) : a[i] < b[i] /\ \A j \in 1..(i - 1) : a[j] = b[j]

\* a * 2^n, as (a * 2^(n \div 2)) * 2^(n - n \div 2)
BigShiftLeft[a \in BigNat, n \in Nat] ==
    IF n = 0 \/ a = <<>> THEN a
    ELSE IF n = 1 THEN BigDouble(a)
    ELSE BigShiftLeft[BigShiftLeft[a, n \div 2], n - (n \div 2)]

\* a * 5^n, five times a being half of ten times a, as
\* (a * 5^(n \div 2)) * 5^(n - n \div 2)
BigTimesPow5[a \in BigNat, n \in Nat] ==
    IF n = 0 \/ a = <<>> THEN a
    ELSE IF n = 1 THEN BigHalf(a \o <<0>>)
    ELSE BigTimesPow5[BigTimesPow5[a, n \div 2], n - (n \div 2)]

\* A double is m * 2^e with m < 2^53: a normal number has 2^52 <= m and
\* -1074 <= e <= 971, a subnormal number and zero have m < 2^52 and e = -1074.
Pow2_52 == <<4,5,0,3,5,9,9,6,2,7,3,7,0,4,9,6>>
Pow2_53 == <<9,0,0,7,1,9,9,2,5,4,7,4,0,9,9,2>>
MinExp == -1074
MaxExp == 971
Doubles == [inf : BOOLEAN, m : BigNat, e : Int]
Finite(m, e) == [inf |-> FALSE, m |-> m, e |-> e]

\* a \div 10^k and the k digits of a % 10^k
IntPart(a, k) == IF Len(a) <= k THEN <<>> ELSE SubSeq(a, 1, Len(a) - k)
FracPart(a, k) ==
    IF Len(a) >= k THEN SubSeq(a, Len(a) - k + 1, Len(a)) ELSE Zeros(k - Len(a)) \o a

\* The scaling below goes on in runs of Run steps, each run worked out
\* before the next one.
Run == 32

\* A number on its way to 53 bits: m * 2^e, round the last bit that was
\* lost, sticky whether a bit lost before it, or a decimal, was not zero.
Scaled == [m : BigNat, e : Int, round : BOOLEAN, sticky : BOOLEAN]

\* At most n halvings of s.m, while it is 2^53 or more (and not beyond every
\* double).
HalveWhileBig[s \in Scaled, n \in Nat] ==
    IF n = 0 \/ BigLess(s.m, Pow2_53) \/ s.e > MaxExp THEN s
    ELSE HalveWhileBig[[m |-> BigHalf(s.m), e |-> s.e + 1,
                        round |-> BigOdd(s.m), sticky |-> s.sticky \/ s.round], n - 1]

\* A number of 2^53 or more is halved until it is below 2^53.
ScaleDown[s \in Scaled] ==
    IF BigLess(s.m, Pow2_53) \/ s.e > MaxExp THEN s
    ELSE ScaleDown[HalveWhileBig[s, Run]]

\* a / 10^k on its way to 53 bits, as a * 2^e.
Scaling == [a : BigNat, e : Int]

\* At most n doublings of s.a, while s.a / 10^k is below 2^52 and the
\* exponent above the one of the subnormal numbers.
DoubleWhileSmall[s \in Scaling, k \in Nat, n \in Nat] ==
    IF n = 0 \/ ~BigLess(IntPart(s.a, k), Pow2_52) \/ s.e = MinExp THEN s
    ELSE DoubleWhileSmall[[a |-> BigDouble(s.a), e |-> s.e - 1], k, n - 1]

\* A number below 2^52: a / 10^k is doubled until it is 2^52 or more, or the
\* exponent is the one of the subnormal numbers; the decimals that are left
\* say how to round.
ScaleUp[s \in Scaling, k \in Nat] ==
    IF ~BigLess(IntPart(s.a, k), Pow2_52) \/ s.e = MinExp
    THEN [m |-> IntPart(s.a, k), e |-> s.e,
          round |-> k > 0 /\ FracPart(s.a, k)[1] >= 5,
          sticky |-> /\ k > 0
                     /\ \/ FracPart(s.a, k)[1] \notin {0, 5}
                        \/ \E j \in 2..k : Len(s.a) - k + j >= 1 /\ s.a[Len(s.a) - k + j] # 0]
    ELSE ScaleUp[DoubleWhileSmall[s, k, Run], k]

\* The scaled number to the nearest double, halfway cases to the even one.
RoundHalfEven[s \in Scaled] ==
    LET up == s.round /\ (s.sticky \/ BigOdd(s.m))
        q == IF up THEN BigInc(s.m) ELSE s.m
    IN  IF s.e > MaxExp \/ (q = Pow2_53 /\ s.e = MaxExp)
        THEN [inf |-> TRUE, m |-> <<>>, e |-> 0]
        ELSE IF q = Pow2_53 THEN Finite(Pow2_52, s.e + 1)
        ELSE Finite(q, s.e)

\* The double nearest to n * 10^p, which is a / 10^k.
NearestDouble[n \in BigNat, p \in Int] ==
    LET a == IF p >= 0 THEN BigTrim(n) \o Zeros(p) ELSE BigTrim(n)
        k == IF p >= 0 THEN 0 ELSE -p
    IN  IF a = <<>> THEN Finite(<<>>, MinExp)
        ELSE IF BigLess(IntPart(a, k), Pow2_53)
        THEN RoundHalfEven[ScaleUp[[a |-> a, e |-> 0], k]]
        ELSE RoundHalfEven[ScaleDown[[m |-> IntPart(a, k), e |-> 0, round |-> FALSE,
                                      sticky |-> \E j \in 1..k : a[Len(a) - k + j] # 0]]]

\* float(value) for a value the pattern matched: digits, or digits "." digits.
float(value) ==
    LET sep == IndexOfAny(value, 0, {"."})
    IN  IF sep = -1
        THEN NearestDouble[[i \in 1..Len(value) |-> DigitTable[value[i]]], 0]
        ELSE NearestDouble[[i \in 1..(Len(value) - 1) |->
                               DigitTable[value[IF i <= sep THEN i ELSE i + 1]]],
                           -(Len(value) - sep - 1)]

\* m * 2^e written with an odd m, or with an e that is not negative when the
\* number is whole; zero is 0 * 2^0.
Odd2[m \in BigNat, e \in Int] ==
    IF m = <<>> THEN [m |-> m, e |-> 0]
    ELSE IF e >= 0 \/ BigOdd(m) THEN [m |-> m, e |-> e]
    ELSE Odd2[BigHalf(m), e + 1]

\* num.is_integer()
is_integer(num) == ~num.inf /\ (num.m = <<>> \/ Odd2[num.m, num.e].e >= 0)

\* "0" * n
ZeroStr(n) == [i \in 1..n |-> "0"]

\* The digits of a number.
BigStr(a) == IF a = <<>> THEN <<"0">> ELSE [i \in 1..Len(a) |-> AsciiDigits[a[i] + 1]]

\* str(int(num)) for a whole num
IntStr(num) == BigStr(BigShiftLeft[Odd2[num.m, num.e].m, Odd2[num.m, num.e].e])

\* d cut to n digits: the decimal of n digits nearest to d (halfway cases
\* to the even one) when nearest, its neighbour on the other side of d
\* otherwise; the digits, and by how much the number of digits before the
\* decimal point grew (1 when 99..9 became 100..0).
RoundDigits[d \in BigNat, n \in Nat, nearest \in BOOLEAN] ==
    IF n >= Len(d) THEN [digits |-> d, grew |-> 0]
    ELSE LET head == SubSeq(d, 1, n)
             above == \/ d[n + 1] > 5
                      \/ /\ d[n + 1] = 5
                         /\ \/ \E j \in (n + 2)..Len(d) : d[j] # 0
                            \/ BigOdd(head)
         IN  IF above # nearest THEN [digits |-> head, grew |-> 0]
             ELSE IF \A i \in 1..n : d[i] = 9 THEN [digits |-> <<1>>, grew |-> 1]
             ELSE [digits |-> BigInc(head), grew |-> 0]

\* The digits without the zeros at their end.
BigTrimRight(a) ==
    LET NZ == {i \in 1..Len(a) : a[i] # 0}
    IN  IF NZ = {} THEN <<>>
        ELSE SubSeq(a, 1, CHOOSE i \in NZ : \A j \in NZ : j <= i)

\* repr's digits: the shortest decimal, of n digits or more, that float()
\* reads back as num, the one nearest to num among those of its length: of
\* the decimals of n digits only the two next to num can read back, and the
\* nearer one may fail where the other one does not (below a power of two
\* the doubles are twice as close as above it).  d holds the digits of the
\* exact value of num, decpt says how many of them stand before the decimal
\* point; the result is 0.digits * 10^decpt.
Shortest[num \in Doubles, d \in BigNat, decpt \in Int, n \in Nat] ==
    LET Short[r \in [digits : BigNat, grew : 0..1]] ==
            [digits |-> BigTrimRight(r.digits), decpt |-> decpt + r.grew]
        Reads[c \in [digits : BigNat, decpt : Int]] ==
            NearestDouble[c.digits, c.decpt - Len(c.digits)] = num
    IN  IF n >= Len(d) THEN Short[[digits |-> d, grew |-> 0]]
        ELSE IF Reads[Short[RoundDigits[d, n, TRUE]]] THEN Short[RoundDigits[d, n, TRUE]]
        ELSE IF Reads[Short[RoundDigits[d, n, FALSE]]] THEN Short[RoundDigits[d, n, FALSE]]
        ELSE Shortest[num, d, decpt, n + 1]

\* repr of the double num = m * 2^e, m odd and e < 0: its exact decimal
\* value has the digits of m * 5^(-e), -e of them decimals.
\* The shortest digits c are written with the decimal point after decpt of
\* them: with an exponent when the point is more than 16 digits after the
\* first digit or more than 3 zeros before it.
ReprOdd[num \in Doubles, m \in BigNat, e \in Int] ==
    LET Digits[d \in BigNat] == Shortest[num, d, Len(d) + e, 1]
        Format[c \in Seq(STRING), decpt \in Int] ==
            IF -4 < decpt /\ decpt <= 16
            THEN IF decpt <= 0 THEN <<"0", ".">> \o ZeroStr(-decpt) \o c
                 ELSE IF decpt >= Len(c) THEN c \o ZeroStr(decpt - Len(c)) \o <<".", "0">>
                 ELSE Upto(c, decpt) \o <<".">> \o From(c, decpt)
            ELSE <<Head(c)>>
                 \o (IF Len(c) > 1 THEN <<".">> \o Tail(c) ELSE <<>>)
                 \o <<"e", IF decpt >= 1 THEN "+" ELSE "-">>
                 \o (IF (IF decpt >= 1 THEN decpt - 1 ELSE 1 - decpt) < 10
                     THEN <<"0">> ELSE <<>>)
                 \o str(IF decpt >= 1 THEN decpt - 1 ELSE 1 - decpt)
        Short[s \in [digits : BigNat, decpt : Int]] == Format[BigStr(s.digits), s.decpt]
    IN  Short[Digits[BigTimesPow5[m, -e]]]

\* repr(num), which f"{num}" writes, for a num that is not whole.
repr(num) ==
    IF num.inf THEN <<"i","n","f">>
    ELSE ReprOdd[num, Odd2[num.m, num.e].m, Odd2[num.m, num.e].e]

\* f"{int(num)}%" if num.is_integer() else f"{num}%"
PercentOf[num \in Doubles] ==
    IF is_integer(num) THEN IntStr(num) \o <<"%">> ELSE repr(num) \o <<"%">>

\* The rendering of the last match: value = matches[-1].replace(",", "."),
\* num = float(value), f"{int(num)}%" when num.is_integer() else f"{num}%".
\* (float() accepts every string the pattern matches, so the ValueError
\* branch is never taken.)
RenderPercent(value) ==
    PercentOf[float([i \in 1..Len(value) |-> IF value[i] = "," THEN "." ELSE value[i]])]

\* An extractor that renders the first match, not the last.
extract_promotion_from_text_FirstMatch(text) ==
    IF text = <<>> THEN <<>>
    ELSE LET matches == FindAllPercent(text, 0)
         IN  IF matches = <<>> THEN <<>>
             ELSE RenderPercent(matches[1])

extract_promotion_from_text(text) ==
    IF text = <<>> THEN <<>>
    ELSE LET matches == FindAllPercent(text, 0)
         IN  IF matches = <<>> THEN <<>>
             ELSE RenderPercent(matches[Len(matches)])

(***************************************************************************)
(* helpers.make_product_key                                                *)
(***************************************************************************)
\* (x or "")
OrEmpty(x) == IF x = NoneVal THEN <<>> ELSE x

\* s.replace(" ", "")
RemoveSpaces(s) == SelectSeq(s, LAMBDA ch : ch # " ")

RECURSIVE join(_, _)
\* sep.join(parts)
join(sep, parts) ==
    IF parts = <<>> THEN <<>>
    ELSE IF Len(parts) = 1 THEN parts[1]
    ELSE parts[1] \o sep \o join(sep, Tail(parts))

\* A key builder that leaves the spaces inside the brand.
make_product_key_KeepBrandSpaces(brand, capacity, packing) ==
    LET brand_part == strip(OrEmpty(brand))
        cap_part == strip(OrEmpty(capacity))
        pack_part == strip(OrEmpty(packing))
        parts == SelectSeq(<<brand_part, cap_part, pack_part>>, LAMBDA p : p # <<>>)
    IN  join(<<"_">>, [i \in 1..Len(parts) |-> upper(parts[i])])

\* A key builder that leaves the capacity out.
make_product_key_NoCapacity(brand, capacity, packing) ==
    LET brand_part == RemoveSpaces(strip(OrEmpty(brand)))
        pack_part == strip(OrEmpty(packing))
        parts == SelectSeq(<<brand_part, pack_part>>, LAMBDA p : p # <<>>)
    IN  join(<<"_">>, [i \in 1..Len(parts) |-> upper(parts[i])])

make_product_key(brand, capacity, packing) ==
    LET brand_part == RemoveSpaces(strip(OrEmpty(brand)))
        cap_part == strip(OrEmpty(capacity))
        pack_part == strip(OrEmpty(packing))
        parts == SelectSeq(<<brand_part, cap_part, pack_part>>, LAMBDA p : p # <<>>)
    IN  join(<<"_">>, [i \in 1..Len(parts) |-> upper(parts[i])])

(***************************************************************************)
(* The discount computed from the two prices (bhx_crawler.py 422-439, and  *)
(* the same block in lotte, kingfood and coop).                            *)
(***************************************************************************)
RECURSIVE Pow2Mod25(_)
Pow2Mod25(k) == IF k = 0 THEN 1 ELSE (2 * Pow2Mod25(k - 1)) % 25

RECURSIVE BinaryExponent(_, _)
\* The e with 2^e <= n/200 < 2^(e+1), searched upwards from e (n >= 1).
BinaryExponent(n, e) ==
    LET below == IF e >= 0 THEN (2 ^ (e + 1)) * 200 > n ELSE 200 > n * (2 ^ (-(e + 1)))
    IN  IF below THEN e ELSE BinaryExponent(n, e + 1)

\* The double nearest to the decimal tie n/200 (n odd, not a multiple of 25,
\* so that n/200 is no double) lies above it: the bits after the 53rd of
\* n/200 = 2^e * 1.b1b2... are more than half a unit.  For such a tie
\* round(x, 2) follows the double.
TieDoubleAbove(n) == ((n % 25) * Pow2Mod25(49 - BinaryExponent(n, -8))) % 25 >= 13

\* round((price - price_after_int) * 100.0 / float(price), 2), in hundredths.
\* The quotient is a double; it rounds like the exact quotient except on an
\* exact decimal tie, where a tie that is a double goes to the even
\* hundredth and any other follows the double.  (Exact for prices below
\* 2^31 / 100.)
RoundedDiscount(price, price_after_int) ==
    LET n == (price - price_after_int) * 100
        rem1 == n % price
        floor == (n \div price) * 100 + (rem1 * 100) \div price
        rem2 == (rem1 * 100) % price
        tie == 2 * floor + 1
    IN  IF 2 * rem2 < price THEN floor
        ELSE IF 2 * rem2 > price THEN floor + 1
        ELSE IF tie % 25 = 0 THEN (IF floor % 2 = 0 THEN floor ELSE floor + 1)
        ELSE IF TieDoubleAbove(tie) THEN floor + 1 ELSE floor

\* f"{int(discount)}%" when abs(discount - int(discount)) < 1e-6, else
\* f"{discount}%", for discount = h / 100.
DiscountText(h) ==
    LET cents == h % 100
    IN  IF cents = 0 THEN str(h \div 100) \o <<"%">>
        ELSE str(h \div 100) \o <<".">>
             \o (IF cents % 10 = 0 THEN str(cents \div 10)
                 ELSE <<AsciiDigits[(cents \div 10) + 1], AsciiDigits[(cents % 10) + 1]>>)
             \o <<"%">>

\* if not promotion and price and price_after_int and price > price_after_int:
\*     promotion = <the discount>
PromotionOrDiscount(promotion, price, price_after_int) ==
    IF promotion = <<>> /\ price # 0 /\ price_after_int # 0 /\ price > price_after_int
    THEN DiscountText(RoundedDiscount(price, price_after_int))
    ELSE promotion

(***************************************************************************)
(* Record assembly: the body of each crawler's loop over the elements of   *)
(* the page.  An element is what the page gives the loop, before any       *)
(* stripping or parsing: the texts (.text, for mega the innerText of the   *)
(* two prices and of the badge) of the name, of the current price, of the  *)
(* struck-through price, of the promotion or badge (promo_text), of the    *)
(* "Tiet kiem" block (save_text) and of the block of conditions            *)
(* (note_text), the coop card's brand and unit texts; code, the            *)
(* product-code attribute (bhx), the text of the dnr block (mega) or the   *)
(* data-content-name attribute (coop); anchor_id, the id of the bhx        *)
(* element's a[id^='product_'] link; url, the href attribute of the        *)
(* element's link.  A text or an attribute of a part the element does not  *)
(* have is ""; an attribute that a part it has does not carry is None.     *)
(* source is a tag, not a character string.                                *)
(***************************************************************************)
ALLOWED_PACKINGS ==
    { <<"1">>, <<"4">>, <<"6">>, <<"1","2">>, <<"2","0">>, <<"2","4">> }

\* datetime.now().strftime("%Y-%m-%d"), the same for every record of a run.
crawl_date == <<"2","0","2","5","-","0","1","-","1","5">>

\* A validation that replaces the empty packing only.
EnforcePacking_OnlyEmpty(packing) ==
    IF packing = <<>> THEN <<"1">> ELSE packing

\* if not packing or packing not in ALLOWED_PACKINGS: packing = "1"
EnforcePacking(packing) ==
    IF packing = <<>> \/ packing \notin ALLOWED_PACKINGS THEN <<"1">> ELSE packing

\* mega: if not packing: packing = "1" / elif packing not in allowed_packings:
\* packing = "1"
mega_EnforcePacking(packing) ==
    IF packing = <<>> THEN <<"1">>
    ELSE IF packing \notin ALLOWED_PACKINGS THEN <<"1">>
    ELSE packing

\* A rule that takes the higher of the two prices.
OriginalOrCurrent_Higher(price_original_int, price_after_int) ==
    IF price_original_int > price_after_int THEN price_original_int ELSE price_after_int

\* price = price_original_int or price_after_int
OriginalOrCurrent(price_original_int, price_after_int) ==
    IF price_original_int # 0 THEN price_original_int ELSE price_after_int

\* if not unit and price and price < 40_000: unit = "Lon"
SingleCanUnit(unit, price) ==
    IF unit = <<>> /\ price # 0 /\ price < 40000 THEN <<"L","o","n">> ELSE unit

\* " ".join(promo_text_parts).strip(), the parts being the texts that are
\* not empty.
JoinedPromoText(parts) ==
    strip(join(<<" ">>, SelectSeq(parts, LAMBDA t : t # <<>>)))

\* bhx: promo_div.text.strip(), the text of the block that shows the
\* struck-through price, a blank and the promotion.
bhx_PromoText(el) == strip(el.price_original_text \o <<" ">> \o el.promo_text)

\* lotte: the discount label, then the block of conditions, each stripped.
lotte_PromoText(el) == JoinedPromoText(<<strip(el.promo_text), strip(el.note_text)>>)

\* kingfood: the overlay, found when its text contains "%"; the text of the
\* first div of the card that contains "Tiet kiem" (with its marks), the
\* divs standing in the order overlay, current price, struck-through price,
\* "Tiet kiem" block, note; then the note; each stripped.
kingfood_PromoText(el) ==
    LET divs == <<el.promo_text, el.price_after_text, el.price_original_text,
                  el.save_text, el.note_text>>
        saves == {i \in 1..Len(divs) :
                     Contains(divs[i], <<"T","i","e:ca","t"," ","k","i","e:dc","m">>)}
        save_text == IF saves = {} THEN <<>>
                     ELSE divs[CHOOSE i \in saves : \A j \in saves : i <= j]
    IN  JoinedPromoText(<<
            IF Contains(el.promo_text, <<"%">>) THEN strip(el.promo_text) ELSE <<>>,
            strip(save_text),
            strip(el.note_text) >>)

\* coop: f"Tiet kiem {value}" (with its marks) of the stripped value, then
\* the stripped percentage badge.
coop_PromoText(el) ==
    JoinedPromoText(<<
        IF strip(el.save_text) # <<>>
        THEN <<"T","i","e:ca","t"," ","k","i","e:dc","m"," ">> \o strip(el.save_text)
        ELSE <<>>,
        strip(el.promo_text) >>)

\* bhx: the product-code attribute, stripped; when it is empty, what follows
\* the first "_" of the id of the a[id^='product_'] link, stripped:
\*   code = raw_id.split("_", maxsplit=1)[-1].strip()
bhx_code(el) ==
    LET raw_id == OrEmpty(el.anchor_id)
        i == IndexOfAny(raw_id, 0, {"_"})
    IN  IF strip(OrEmpty(el.code)) # <<>> THEN strip(el.code)
        ELSE strip(IF i = -1 THEN raw_id ELSE From(raw_id, i + 1))

\* A loop body that builds the key before the packing is validated.
crawl_bhx_record_KeyOfRawPacking(el) ==
    LET name == strip(el.name)
        promotion0 == extract_promotion_from_text(bhx_PromoText(el))
        unit0 == extract_unit(name)
        packing == EnforcePacking(extract_packing_quantity(name))
        capacity == extract_capacity(name)
        brand == extract_brand(name)
        price_after_int == extract_price_int(strip(el.price_after_text))
        price_original_int == extract_price_int(strip(el.price_original_text))
        price == OriginalOrCurrent(price_original_int, price_after_int)
    IN  [ source |-> "bachhoaxanh",
          code |-> bhx_code(el),
          name |-> name,
          brand |-> brand,
          normalized_name |-> normalize_name(name),
          unit |-> SingleCanUnit(unit0, price),
          packing |-> packing,
          size |-> <<>>,
          capacity |-> capacity,
          price |-> price,
          price_after_promotion |-> price_after_int,
          promotion |-> PromotionOrDiscount(promotion0, price, price_after_int),
          url |-> el.url,
          note |-> <<>>,
          crawl_date |-> crawl_date,
          product_key |-> make_product_key(brand, capacity, extract_packing_quantity(name)) ]

crawl_bhx_record(el) ==
    LET name == strip(el.name)
        promotion0 == extract_promotion_from_text(bhx_PromoText(el))
        unit0 == extract_unit(name)
        packing == EnforcePacking(extract_packing_quantity(name))
        capacity == extract_capacity(name)
        brand == extract_brand(name)
        price_after_int == extract_price_int(strip(el.price_after_text))
        price_original_int == extract_price_int(strip(el.price_original_text))
        price == OriginalOrCurrent(price_original_int, price_after_int)
    IN  [ source |-> "bachhoaxanh",
          code |-> bhx_code(el),
          name |-> name,
          brand |-> brand,
          normalized_name |-> normalize_name(name),
          unit |-> SingleCanUnit(unit0, price),
          packing |-> packing,
          size |-> <<>>,
          capacity |-> capacity,
          price |-> price,
          price_after_promotion |-> price_after_int,
          promotion |-> PromotionOrDiscount(promotion0, price, price_after_int),
          url |-> el.url,
          note |-> <<>>,
          crawl_date |-> crawl_date,
          product_key |-> make_product_key(brand, capacity, packing) ]

\* innerText.replace("\n", with).strip()
InnerText(text, with) ==
    strip(MapConcat([c \in Range(text) |-> IF c = "LF" THEN with ELSE <<c>>], text))

\* re.fullmatch(r"[A-Za-z0-9]+", text)
IsAsciiAlnum(text) ==
    /\ text # <<>>
    /\ \A i \in 1..Len(text) :
           text[i] \in Range(LowerAZ) \cup Range(UpperAZ) \cup Range(AsciiDigits)

crawl_mega_record(el) ==
    LET name == strip(el.name)
        dnr_text == strip(OrEmpty(el.code))
        final_price == extract_price_int(InnerText(el.price_after_text, <<>>))
        old_price == extract_price_int(InnerText(el.price_original_text, <<>>))
        promotion == extract_promotion_from_text(InnerText(el.promo_text, <<" ">>))
        price == IF old_price > 0 THEN old_price ELSE final_price
        price_after_promotion == final_price
        unit0 == extract_unit(name)
        packing == mega_EnforcePacking(extract_packing_quantity(name))
        capacity == extract_capacity(name)
        brand == extract_brand(name)
    IN  [ source |-> "megamarket",
          code |-> IF IsAsciiAlnum(dnr_text) THEN dnr_text ELSE <<>>,
          name |-> name,
          brand |-> brand,
          normalized_name |-> normalize_name(name),
          unit |-> SingleCanUnit(unit0, price),
          packing |-> packing,
          size |-> <<>>,
          capacity |-> capacity,
          price |-> price,
          price_after_promotion |-> price_after_promotion,
          promotion |-> promotion,
          url |-> el.url,
          note |-> IF dnr_text # <<>> /\ ~IsAsciiAlnum(dnr_text) THEN dnr_text ELSE <<>>,
          crawl_date |-> crawl_date,
          product_key |-> make_product_key(brand, capacity, packing) ]

\* extract_x(name) if name else ""
IfName(name, value) == IF name # <<>> THEN value ELSE <<>>

(***************************************************************************)
(* urllib.parse.urljoin, which lotte, kingfood and coop call on the href   *)
(* of an element, for a base that is an https URL (every base of the       *)
(* program is one): https is one of uses_relative, uses_netloc and         *)
(* uses_params.  urlparse and urljoin are taken where urlsplit_raises is   *)
(* false.                                                                  *)
(***************************************************************************)
\* urllib.parse.uses_params: the schemes whose path may carry params.
uses_params ==
    { <<>>, <<"f","t","p">>, <<"h","d","l">>, <<"p","r","o","s","p","e","r","o">>,
      <<"h","t","t","p">>, <<"i","m","a","p">>, <<"h","t","t","p","s">>,
      <<"s","h","t","t","p">>, <<"r","t","s","p">>, <<"r","t","s","p","s">>,
      <<"r","t","s","p","u">>, <<"s","i","p">>, <<"s","i","p","s">>, <<"m","m","s">>,
      <<"s","f","t","p">>, <<"t","e","l">> }

\* The six parts of a parsed URL.
ParseResult ==
    [scheme : Seq(STRING), netloc : Seq(STRING), path : Seq(STRING),
     params : Seq(STRING), query : Seq(STRING), fragment : Seq(STRING)]

\* urlparse(url, scheme): urlsplit, then the split of the params from the
\* path.  The blanks and C0 controls at the start of url are dropped, and
\* every tab, CR and LF; the scheme is what stands before the first ":"
\* when it starts with a letter and holds scheme characters only, and is
\* lowered; the netloc follows "//" and ends before the first "/", "?" or
\* "#"; the fragment follows the first "#", the query the first "?", and,
\* for a scheme of uses_params, the params the first ";" of the last segment
\* of the path.
urlparse[url \in Seq(STRING), scheme \in Seq(STRING)] ==
    LET Cut[s \in Seq(STRING), c \in STRING] ==
            IF IndexOfAny(s, 0, {c}) = -1 THEN <<s, <<>>>>
            ELSE <<Upto(s, IndexOfAny(s, 0, {c})), From(s, IndexOfAny(s, 0, {c}) + 1)>>
        Params[r \in ParseResult] ==
            LET Slashes == {i \in 0..(Len(r.path) - 1) : r.path[i + 1] = "/"}
                i == IndexOfAny(r.path,
                                IF Slashes = {} THEN 0
                                ELSE CHOOSE j \in Slashes : \A k \in Slashes : k <= j,
                                {";"})
            IN  IF r.scheme \notin uses_params \/ i = -1 THEN r
                ELSE [r EXCEPT !.path = Upto(r.path, i), !.params = From(r.path, i + 1)]
        Query[r \in ParseResult] ==
            Params[[r EXCEPT !.path = Cut[r.path, "?"][1], !.query = Cut[r.path, "?"][2]]]
        Fragment[r \in ParseResult] ==
            Query[[r EXCEPT !.path = Cut[r.path, "#"][1], !.fragment = Cut[r.path, "#"][2]]]
        Netloc[sch \in Seq(STRING), u \in Seq(STRING)] ==
            LET d == IndexOfAny(u, 2, {"/", "?", "#"})
                delim == IF d = -1 THEN Len(u) ELSE d
                none == [scheme |-> sch, netloc |-> <<>>, path |-> u,
                         params |-> <<>>, query |-> <<>>, fragment |-> <<>>]
            IN  IF StartsWithAt(u, 0, <<"/", "/">>)
                THEN Fragment[[none EXCEPT !.netloc = SubSeq(u, 3, delim),
                                           !.path = From(u, delim)]]
                ELSE Fragment[none]
        Scheme[u \in Seq(STRING)] ==
            LET i == IndexOfAny(u, 0, {":"})
            IN  IF /\ i > 0
                   /\ u[1] \in Range(LowerAZ) \cup Range(UpperAZ)
                   /\ \A k \in 1..i : u[k] \in Range(LowerAZ) \cup Range(UpperAZ)
                                              \cup Range(AsciiDigits) \cup {"+", "-", "."}
                THEN Netloc[lower(Upto(u, i)), From(u, i + 1)]
                ELSE Netloc[scheme, u]
        start == CHOOSE j \in 0..Len(url) :
                     /\ \A k \in 1..j : url[k] \in {" ", "TAB", "LF", "CR"}
                     /\ (j < Len(url)) => (url[j + 1] \notin {" ", "TAB", "LF", "CR"})
    IN  Scheme[SelectSeq(From(url, start), LAMBDA c : c \notin {"TAB", "CR", "LF"})]

\* s.split(c): the pieces of s between the occurrences of c.
split[s \in Seq(STRING), c \in STRING] ==
    LET i == IndexOfAny(s, 0, {c})
    IN  IF i = -1 THEN <<s>> ELSE <<Upto(s, i)>> \o split[From(s, i + 1), c]

\* The digits of a hexadecimal number.
HexDigits == Range(AsciiDigits) \cup {"a","b","c","d","e","f","A","B","C","D","E","F"}

\* ipaddress.IPv4Address(address) raises: address is not four octets
\* between dots, each a decimal number of ASCII digits, of at most three
\* digits, without a leading zero, and at most 255.
IPv4Address_raises(address) ==
    LET octets == split[address, "."]
        parse_octet_raises(octet_str) ==
            \/ octet_str = <<>>
            \/ \E j \in 1..Len(octet_str) : ~IsAsciiDigit(octet_str[j])
            \/ Len(octet_str) > 3
            \/ octet_str # <<"0">> /\ octet_str[1] = "0"
            \/ int(octet_str) > 255
    IN  \/ Len(octets) # 4
        \/ \E k \in 1..Len(octets) : parse_octet_raises(octets[k])

\* ipaddress.IPv6Address(address) raises.  A scope id follows the first
\* "%" and is neither empty nor holds a "%".  The address before it has
\* at least three parts between colons; a last part with a dot is an IPv4
\* address and stands for two hextets; there are at most nine parts, at
\* most one empty part strictly inside ("::"), which stands for one or more
\* hextets, and an empty first or last part only next to it; without "::"
\* there are eight parts.  Every other part is one to four hex digits.
IPv6Address_raises(address) ==
    LET pct == IndexOfAny(address, 0, {"%"})
        addr == IF pct = -1 THEN address ELSE Upto(address, pct)
        scope_id == IF pct = -1 THEN <<>> ELSE From(address, pct + 1)
        raw == split[addr, ":"]
        mapped == Contains(raw[Len(raw)], <<".">>)
        parts == IF mapped
                 THEN Upto(raw, Len(raw) - 1) \o << <<"0">>, <<"0">> >>
                 ELSE raw
        n == Len(parts)
        skips == {i \in 2..(n - 1) : parts[i] = <<>>}
        skip_index == CHOOSE i \in skips : TRUE
        parts_hi == IF skips = {} THEN n
                    ELSE IF parts[1] = <<>> THEN skip_index - 2 ELSE skip_index - 1
        parts_lo == IF skips = {} THEN 0
                    ELSE IF parts[n] = <<>> THEN n - skip_index - 1 ELSE n - skip_index
        parse_hextet_raises(hextet_str) ==
            \/ \E j \in 1..Len(hextet_str) : hextet_str[j] \notin HexDigits
            \/ Len(hextet_str) > 4
            \/ hextet_str = <<>>
    IN  \/ pct # -1 /\ (scope_id = <<>> \/ Contains(scope_id, <<"%">>))
        \/ addr = <<>>
        \/ Len(raw) < 3
        \/ mapped /\ IPv4Address_raises(raw[Len(raw)])
        \/ n > 9
        \/ Cardinality(skips) > 1
        \/ /\ skips # {}
           /\ \/ parts[1] = <<>> /\ parts_hi # 0
              \/ parts[n] = <<>> /\ parts_lo # 0
              \/ 8 - (parts_hi + parts_lo) < 1
        \/ /\ skips = {}
           /\ (n # 8 \/ parts[1] = <<>> \/ parts[n] = <<>>)
        \/ \E k \in (1..parts_hi) \cup ((n - parts_lo + 1)..n) :
               parse_hextet_raises(parts[k])

\* _check_bracketed_host(hostname) raises: what stands between the brackets
\* is neither an IPvFuture address ("v", hex digits, a dot, and more) nor an
\* IPv6 address; an IPv4 address in brackets raises as well.
check_bracketed_host_raises(hostname) ==
    IF startswith(hostname, <<"v">>)
    THEN LET hex == CHOOSE k \in 0..(Len(hostname) - 1) :
                        /\ \A j \in 2..(k + 1) : hostname[j] \in HexDigits
                        /\ (k + 2 <= Len(hostname)) => (hostname[k + 2] \notin HexDigits)
         IN  ~ /\ hex >= 1
               /\ Len(hostname) >= hex + 3
               /\ hostname[hex + 2] = "."
    ELSE IPv6Address_raises(hostname)

\* urlsplit raises ValueError: the netloc holds one of "[" and "]" without
\* the other, or holds both and what stands between the first "[" and the
\* next "]" is not an address that may stand in brackets.
urlsplit_raises(url) ==
    LET Checked[netloc \in Seq(STRING)] ==
            LET open == IndexOfAny(netloc, 0, {"["})
                rest == From(netloc, open + 1)
                close == IndexOfAny(rest, 0, {"]"})
                bracketed_host == IF close = -1 THEN rest ELSE Upto(rest, close)
            IN  IF open = -1
                THEN \E i \in 1..Len(netloc) : netloc[i] = "]"
                ELSE \/ \A i \in 1..Len(netloc) : netloc[i] # "]"
                     \/ check_bracketed_host_raises(bracketed_host)
    IN  Checked[urlparse[url, <<>>].netloc]

\* urlunparse: the parts put together again; an empty params, query or
\* fragment is written without its delimiter.
urlunparse[r \in ParseResult] ==
    LET url == IF r.params # <<>> THEN r.path \o <<";">> \o r.params ELSE r.path
        rooted == IF url # <<>> /\ url[1] # "/" THEN <<"/">> \o url ELSE url
        located == IF r.netloc # <<>> \/ (r.scheme # <<>> /\ ~StartsWithAt(url, 0, <<"/", "/">>))
                   THEN <<"/", "/">> \o r.netloc \o rooted
                   ELSE url
    IN  (IF r.scheme # <<>> THEN r.scheme \o <<":">> ELSE <<>>)
        \o located
        \o (IF r.query # <<>> THEN <<"?">> \o r.query ELSE <<>>)
        \o (IF r.fragment # <<>> THEN <<"#">> \o r.fragment ELSE <<>>)

\* urljoin(base, url)
urljoin[base \in Seq(STRING), url \in Seq(STRING)] ==
    LET \* s.split("/")
        Split[s \in Seq(STRING)] ==
            LET P == {i \in 1..Len(s) : s[i] = "/"}
                n == Cardinality(P)
                Pos(k) == IF k = 0 THEN 0
                          ELSE IF k = n + 1 THEN Len(s) + 1
                          ELSE CHOOSE i \in P : Cardinality({j \in P : j < i}) = k - 1
            IN  [k \in 1..(n + 1) |-> SubSeq(s, Pos(k - 1) + 1, Pos(k) - 1)] \o <<>>
        \* the segments without the "." and with every ".." taking back the
        \* segment before it
        Resolved[segments \in Seq(Seq(STRING)), done \in Seq(Seq(STRING))] ==
            IF segments = <<>> THEN done
            ELSE Resolved[Tail(segments),
                          IF Head(segments) = <<".", ".">>
                          THEN Upto(done, IF done = <<>> THEN 0 ELSE Len(done) - 1)
                          ELSE IF Head(segments) = <<".">> THEN done
                          ELSE Append(done, Head(segments))]
        \* the middle segments that are not empty, between the first and the last
        Filtered[segments \in Seq(Seq(STRING))] ==
            IF Len(segments) < 2 THEN segments
            ELSE <<Head(segments)>>
                 \o SelectSeq(SubSeq(segments, 2, Len(segments) - 1), LAMBDA seg : seg # <<>>)
                 \o <<segments[Len(segments)]>>
        Path[segments \in Seq(Seq(STRING))] ==
            LET resolved == Resolved[segments, <<>>]
                              \o (IF segments[Len(segments)] \in {<<".">>, <<".", ".">>}
                                  THEN << <<>> >> ELSE <<>>)
            IN  IF join(<<"/">>, resolved) = <<>> THEN <<"/">> ELSE join(<<"/">>, resolved)
        Join[b \in ParseResult, u \in ParseResult] ==
            LET base_parts == IF Split[b.path][Len(Split[b.path])] # <<>>
                              THEN Upto(Split[b.path], Len(Split[b.path]) - 1)
                              ELSE Split[b.path]
            IN  IF u.scheme # b.scheme THEN url
                ELSE IF u.netloc # <<>> THEN urlunparse[u]
                ELSE IF u.path = <<>> /\ u.params = <<>>
                THEN urlunparse[[b EXCEPT !.query = IF u.query # <<>> THEN u.query ELSE b.query,
                                          !.fragment = u.fragment]]
                ELSE urlunparse[[u EXCEPT
                         !.netloc = b.netloc,
                         !.path = IF StartsWithAt(u.path, 0, <<"/">>)
                                  THEN Path[Split[u.path]]
                                  ELSE Path[Filtered[base_parts \o Split[u.path]]]]]
        Base[b \in ParseResult] == Join[b, urlparse[url, b.scheme]]
    IN  IF base = <<>> THEN url
        ELSE IF url = <<>> THEN base
        ELSE Base[urlparse[base, <<>>]]

\* LOTTE_URL of lotte_crawler, BASE_URL of kingfood_crawler and of
\* coop_crawler.
LOTTE_URL ==
    <<"h","t","t","p","s",":","/","/","w","w","w",".","l","o","t","t","e","m",
      "a","r","t",".","v","n","/","v","i","-","n","s","g","/","c","a","t","e",
      "g","o","r","y","/","b","i","a","-","c","1","2","3">>
kingfood_BASE_URL ==
    <<"h","t","t","p","s",":","/","/","k","i","n","g","f","o","o","d","m","a",
      "r","t",".","c","o","m">>
coop_BASE_URL ==
    <<"h","t","t","p","s",":","/","/","c","o","o","p","o","n","l","i","n","e",
      ".","v","n">>

\* lotte: the code is parsed from the href of the name link,
\*   path = href.split("/")[-1]
\*   before_p = path.split("-p", maxsplit=1)[0]
\*   code = before_p.split("-")[-1].strip()
\* and is "" when there is no href.
lotte_code(href) ==
    LET Slashes == {i \in 1..Len(href) : href[i] = "/"}
        path == IF Slashes = {} THEN href
                ELSE From(href, CHOOSE i \in Slashes : \A j \in Slashes : j <= i)
        DashPs == {i \in 0..(Len(path) - 2) : StartsWithAt(path, i, <<"-", "p">>)}
        before_p == IF DashPs = {} THEN path
                    ELSE Upto(path, CHOOSE i \in DashPs : \A j \in DashPs : i <= j)
        Dashes == {i \in 1..Len(before_p) : before_p[i] = "-"}
        last == IF Dashes = {} THEN before_p
                ELSE From(before_p, CHOOSE i \in Dashes : \A j \in Dashes : j <= i)
    IN  IF href = <<>> THEN <<>> ELSE strip(last)

\* A record whose key is built before the packing is defaulted.
crawl_lotte_record_KeyBeforeDefault(el) ==
    LET name == strip(el.name)
        href == OrEmpty(el.url)
        price_after_int == extract_price_int(strip(el.price_after_text))
        price_original_int == extract_price_int(strip(el.price_original_text))
        price == OriginalOrCurrent(price_original_int, price_after_int)
        promotion0 == extract_promotion_from_text(lotte_PromoText(el))
        packing == EnforcePacking(IfName(name, extract_packing_quantity(name)))
        capacity == IfName(name, extract_capacity(name))
        brand == IfName(name, extract_brand(name))
    IN  [ source |-> "lottemart",
          code |-> lotte_code(href),
          name |-> name,
          brand |-> brand,
          normalized_name |-> IfName(name, normalize_name(name)),
          unit |-> IfName(name, extract_unit(name)),
          packing |-> packing,
          size |-> <<>>,
          capacity |-> capacity,
          price |-> price,
          price_after_promotion |-> price_after_int,
          promotion |-> PromotionOrDiscount(promotion0, price, price_after_int),
          url |-> IF href # <<>> THEN urljoin[LOTTE_URL, href] ELSE <<>>,
          note |-> strip(el.note_text),
          crawl_date |-> crawl_date,
          product_key |-> make_product_key(brand, capacity,
                                           IfName(name, extract_packing_quantity(name))) ]

\* lotte: href = name_el.get_attribute("href") or "",
\* url = urljoin(LOTTE_URL, href) if href else ""
crawl_lotte_record(el) ==
    LET name == strip(el.name)
        href == OrEmpty(el.url)
        price_after_int == extract_price_int(strip(el.price_after_text))
        price_original_int == extract_price_int(strip(el.price_original_text))
        price == OriginalOrCurrent(price_original_int, price_after_int)
        promotion0 == extract_promotion_from_text(lotte_PromoText(el))
        packing == EnforcePacking(IfName(name, extract_packing_quantity(name)))
        capacity == IfName(name, extract_capacity(name))
        brand == IfName(name, extract_brand(name))
    IN  [ source |-> "lottemart",
          code |-> lotte_code(href),
          name |-> name,
          brand |-> brand,
          normalized_name |-> IfName(name, normalize_name(name)),
          unit |-> IfName(name, extract_unit(name)),
          packing |-> packing,
          size |-> <<>>,
          capacity |-> capacity,
          price |-> price,
          price_after_promotion |-> price_after_int,
          promotion |-> PromotionOrDiscount(promotion0, price, price_after_int),
          url |-> IF href # <<>> THEN urljoin[LOTTE_URL, href] ELSE <<>>,
          note |-> strip(el.note_text),
          crawl_date |-> crawl_date,
          product_key |-> make_product_key(brand, capacity, packing) ]

\* make_unique_code, which kingfood_crawler imports from helpers and calls
\* for the code field.  helpers.py defines no function of that name (the
\* import raises ImportError, see CallMakeUniqueCode); the kingfood record
\* is the one of the loop body with the function in place that the
\* specification describes, a deterministic code that keeps its three
\* arguments apart.
make_unique_code(source, product_key, normalized_name) ==
    <<source, product_key, normalized_name>>

\* kingfood: href = element.get_attribute("href") or "",
\* url = urljoin(BASE_URL, href) if href else ""
crawl_kingfood_record(el) ==
    LET name == strip(el.name)
        href == OrEmpty(el.url)
        price_after_int == extract_price_int(strip(el.price_after_text))
        price_original_int == extract_price_int(strip(el.price_original_text))
        price == OriginalOrCurrent(price_original_int, price_after_int)
        promotion0 == extract_promotion_from_text(kingfood_PromoText(el))
        packing == EnforcePacking(IfName(name, extract_packing_quantity(name)))
        capacity == IfName(name, extract_capacity(name))
        brand == IfName(name, extract_brand(name))
        normalized_name == IfName(name, normalize_name(name))
        product_key == make_product_key(brand, capacity, packing)
    IN  [ source |-> "kingfoodmart",
          code |-> make_unique_code("kingfood", product_key, normalized_name),
          name |-> name,
          brand |-> brand,
          normalized_name |-> normalized_name,
          unit |-> IfName(name, extract_unit(name)),
          packing |-> packing,
          size |-> <<>>,
          capacity |-> capacity,
          price |-> price,
          price_after_promotion |-> price_after_int,
          promotion |-> PromotionOrDiscount(promotion0, price, price_after_int),
          url |-> IF href # <<>> THEN urljoin[kingfood_BASE_URL, href] ELSE <<>>,
          note |-> strip(el.note_text),
          crawl_date |-> crawl_date,
          product_key |-> product_key ]

\* coop: unit_text = unit_div.text.strip(),
\* unit = unit_text.split(":", 1)[1].strip() if ":" in unit_text else unit_text
coop_CardUnit(unit_text) ==
    LET colon == IndexOfAny(strip(unit_text), 0, {":"})
    IN  IF colon # -1 THEN strip(From(strip(unit_text), colon + 1)) ELSE strip(unit_text)

\* coop: code = card.get_attribute("data-content-name") or ""; when it is
\* empty and there is an href, code = href.rstrip("/").split("/")[-1]
coop_code(el) ==
    LET href == OrEmpty(el.url)
        Kept == {i \in 1..Len(href) : href[i] # "/"}
        trimmed == IF Kept = {} THEN <<>>
                   ELSE Upto(href, CHOOSE i \in Kept : \A j \in Kept : j <= i)
        Slashes == {i \in 1..Len(trimmed) : trimmed[i] = "/"}
    IN  IF OrEmpty(el.code) # <<>> THEN el.code
        ELSE IF Slashes = {} THEN trimmed
        ELSE From(trimmed, CHOOSE i \in Slashes : \A j \in Slashes : j <= i)

\* coop: href = a_tag.get_attribute("href") or "" ("" without an a[href]),
\* url = href if href.startswith("http") else urljoin(BASE_URL, href)
crawl_coop_record(el) ==
    LET name == strip(el.name)
        href == OrEmpty(el.url)
        brand0 == strip(el.brand_text)
        unit0 == coop_CardUnit(el.unit_text)
        unit == IF unit0 = <<>> /\ name # <<>> THEN extract_unit(name) ELSE unit0
        price_after_int == extract_price_int(strip(el.price_after_text))
        price_original_int == extract_price_int(strip(el.price_original_text))
        price == OriginalOrCurrent(price_original_int, price_after_int)
        promotion0 == extract_promotion_from_text(coop_PromoText(el))
        packing == EnforcePacking(IfName(name, extract_packing_quantity(name)))
        capacity == IfName(name, extract_capacity(name))
        brand == IF brand0 = <<>> /\ name # <<>> THEN extract_brand(name) ELSE brand0
    IN  [ source |-> "cooponline",
          code |-> coop_code(el),
          name |-> name,
          brand |-> brand,
          normalized_name |-> IfName(name, normalize_name(name)),
          unit |-> unit,
          packing |-> packing,
          size |-> <<>>,
          capacity |-> capacity,
          price |-> price,
          price_after_promotion |-> price_after_int,
          promotion |-> PromotionOrDiscount(promotion0, price, price_after_int),
          url |-> IF startswith(href, <<"h","t","t","p">>) THEN href
                  ELSE urljoin[coop_BASE_URL, href],
          note |-> <<>>,
          crawl_date |-> crawl_date,
          product_key |-> make_product_key(brand, capacity, packing) ]


(***************************************************************************)
(* The pages the crawlers are run on.                                      *)
(***************************************************************************)
\* "Thung 24 lon bia Heineken 330ml" (with the grave on the u)
Name_Thung24 ==
    <<"T","h","u:g","n","g"," ","2","4"," ","l","o","n"," ","b","i","a"," ",
      "H","e","i","n","e","k","e","n"," ","3","3","0","m","l">>
\* "Bia Tiger lon 330ml": a unit, no packing number
Name_TigerLon ==
    <<"B","i","a"," ","T","i","g","e","r"," ","l","o","n"," ","3","3","0","m","l">>
\* "Loc 7 chai Sai Gon 33 CL" (with the marks): a packing outside the list
Name_Loc7 ==
    <<"L","o:ca","c"," ","7"," ","c","h","a","i"," ","S","a:g","i"," ","G","o:g","n",
      " ","3","3"," ","C","L">>
\* "Bia 333 hop 12" (hop with its marks): no unit, packing after the word
Name_Hop12 ==
    <<"B","i","a"," ","3","3","3"," ","h","o:dc","p"," ","1","2">>
\* "Soda 4 x 250ml": no unit, no brand, packing by the fallback rule
Name_Soda == <<"S","o","d","a"," ","4"," ","x"," ","2","5","0","m","l">>

Names == { Name_Thung24, Name_TigerLon, Name_Loc7, Name_Hop12, Name_Soda, <<>> }

Text_410 == <<"4","1","0",".","0","0","0","d:-">>
Text_450 == <<"4","5","0",".","0","0","0","d:-">>
Text_30 == <<"3","0",".","0","0","0","d:-">>
Text_20 == <<"2","0",".","0","0","0","d:-">>
Text_36 == <<"3","6",".","0","0","0","d:-"," ","/","l","o","n">>
Text_40 == <<"4","0",".","0","0","0","d:-">>

\* <<current price text, struck-through price text>>
Price_NoOriginal == <<Text_410, <<>>>>
Price_Discounted == <<Text_410, Text_450>>
Price_OriginalLower == <<Text_30, Text_20>>
Price_WholePercent == <<Text_36, Text_40>>
Price_Missing == <<<<>>, <<>>>>

\* <<promotion block or badge, "Tiet kiem" text, conditions>>
Promo_None == << <<>>, <<>>, <<>> >>
Promo_Badge == << <<"-","3","%">>, <<>>, <<>> >>
\* a badge "-3%", and the conditions "Mua 2 -5%"
Promo_BadgeAndNote == << <<"-","3","%">>, <<>>, <<"M","u","a"," ","2"," ","-","5","%">> >>
\* no badge; "Tiet kiem" shows the amount "12.000 d" (with the dong sign)
Promo_Saving == << <<>>, <<"1","2",".","0","0","0"," ","dong">>, <<>> >>
\* a badge "Tiet kiem 7%" (with its marks), which is also the first text of
\* the element that holds these words
Promo_SavingBadge ==
    << <<"T","i","e:ca","t"," ","k","i","e:dc","m"," ","7","%">>, <<>>, <<>> >>

\* <<brand text, unit text>> of a coop card; no other page has them.
Card_None == << <<>>, <<>> >>

\* An element of a page: the texts it shows, the code it carries (bhx: the
\* product-code attribute, mega: the text of the dnr block, coop:
\* data-content-name), no a[id^='product_'] link, and the href of its link,
\* which is absolute.
Element(name, prices, promos, card) ==
    [ name |-> name,
      price_after_text |-> prices[1],
      price_original_text |-> prices[2],
      promo_text |-> promos[1],
      save_text |-> promos[2],
      note_text |-> promos[3],
      brand_text |-> card[1],
      unit_text |-> card[2],
      code |-> <<"D","A","5","3">>,
      anchor_id |-> <<>>,
      url |-> <<"h","t","t","p","s",":","/","/","x","/",
                "b","i","a","-","8","9","3","5","-","p","1","0">> ]

\* The element of the end-to-end scenario: the name "Thung 24 lon bia
\* Heineken 330ml" (with the grave), the current price text "410.000d" (with
\* the d-stroke), no struck-through price text, the promotion text "-3%".
ScenarioElement == Element(Name_Thung24, Price_NoOriginal, Promo_Badge, Card_None)

\* An element as a page gives it, with blanks around its texts: the name
\* "  Bia Tiger lon 330ml " and a line feed, the current price " 410.000d ",
\* the struck-through price "450.000d" after a tab, the badge " -3% "; no
\* code of its own, the link id "product_DA53" and an href that ends in "?".
PaddedElement ==
    [ Element(<<" ", " ">> \o Name_TigerLon \o <<" ", "LF">>,
              << <<" ">> \o Text_410 \o <<" ">>, <<"TAB">> \o Text_450 >>,
              << <<" ","-","3","%"," ">>, <<>>, <<>> >>,
              Card_None)
      EXCEPT !.code = <<>>,
             !.anchor_id = <<"p","r","o","d","u","c","t","_","D","A","5","3">>,
             !.url = @ \o <<"?">> ]

\* An element whose href urlsplit refuses: "https://[zz]/a".
BracketElement ==
    [ Element(Name_Soda, Price_NoOriginal, Promo_None, Card_None)
      EXCEPT !.url = <<"h","t","t","p","s",":","/","/","[","z","z","]","/","a">> ]

\* The elements of a page: every name at one price; a name with a unit, with
\* and without a struck-through price and a badge; a badge with conditions,
\* a saved amount alone and a badge of the saving; a name without a unit at
\* a lower struck-through price, at a discount of a whole percentage and
\* without prices; an element with blanks around its texts, and one with an
\* href that is no URL.
Elements ==
    { PaddedElement, BracketElement,
      Element(Name_TigerLon, Price_Discounted, Promo_SavingBadge, Card_None) } \cup
    { Element(n, Price_NoOriginal, Promo_None, Card_None) : n \in Names } \cup
    { Element(Name_Thung24, p, q, Card_None) :
          p \in {Price_NoOriginal, Price_Discounted}, q \in {Promo_None, Promo_Badge} } \cup
    { Element(Name_TigerLon, Price_Discounted, q, Card_None) :
          q \in {Promo_BadgeAndNote, Promo_Saving} } \cup
    { Element(Name_Soda, p, Promo_None, Card_None) :
          p \in {Price_OriginalLower, Price_WholePercent, Price_Missing} }

\* "Don vi tinh: Thung" and "Loc 6" (with their marks): unit texts of a
\* coop card; "Tiger": its brand text.
Unit_DonViTinhThung ==
    <<"D:-","o:h","n"," ","v","i:d"," ","t","i:a","n","h",":"," ","T","h","u:g","n","g">>
Unit_Loc6 == <<"L","o:ca","c"," ","6">>
Brand_Tiger == <<"T","i","g","e","r">>

\* The cards of a coop page: the same elements, a card without a code and
\* without a link, and cards that show a brand or a unit of their own.
CoopElements ==
    Elements \cup
    { [Element(Name_Soda, Price_NoOriginal, Promo_None, Card_None)
          EXCEPT !.code = NoneVal, !.url = <<>>] } \cup
    { Element(Name_Soda, Price_NoOriginal, Promo_None, <<b, u>>) :
          b \in {<<>>, Brand_Tiger},
          u \in {<<>>, Unit_DonViTinhThung, Unit_Loc6} }

Crawlers == {"bhx", "mega", "lotte", "kingfood", "coop"}

\* The page every site serves while main() runs: its crawlers read the first
\* elements of it, any number up to MaxItems.
MainPage ==
    << ScenarioElement,
       Element(Name_TigerLon, Price_NoOriginal, Promo_Badge, Card_None),
       Element(Name_Soda, Price_OriginalLower, Promo_None, Card_None),
       Element(Name_Loc7, Price_WholePercent, Promo_None, Card_None) >>

\* The elements crawler c may read next: any element of the scenarios when
\* the crawler was called on its own, the next element of MainPage when
\* main() called it.
NextElements(c) ==
    IF main = "none"
    THEN IF c = "coop" THEN CoopElements ELSE Elements
    ELSE {MainPage[(Len(items) % Len(MainPage)) + 1]}

\* The output file before it is written: no header and no rows.
NoFile == [header |-> NoneVal, rows |-> <<>>]

\* No crawler is running.
CrawlIdle ==
    /\ running = "none"
    /\ items = <<>>
    /\ products = <<>>
    /\ driver = "none"
    /\ quits = 0
    /\ outcome = "none"

\* main() is not running: the crawler was called on its own.
MainIdle ==
    /\ main = "none"
    /\ sources = <<>>
    /\ srcs = <<>>
    /\ log = <<>>
    /\ all_products = <<>>
    /\ csv_file = NoFile

\* No helper has been called directly.
CallIdle == called = "none" /\ ret = NoneVal /\ raised = "none"

Init == CrawlIdle /\ MainIdle /\ CallIdle /\ arg = NoneVal

\* crawl_x(): the driver is built, products = [], the page is loaded.
Start ==
    /\ running = "none"
    /\ \E c \in Crawlers : running' = c
    /\ items' = <<>>
    /\ products' = <<>>
    /\ driver' = "open"
    /\ quits' = 0
    /\ outcome' = "none"
    /\ UNCHANGED <<callVars, mainVars>>

\* crawl_x(): the driver cannot be built.  Every crawler builds its driver
\* before its try block (driver = init_driver(...) or _build_driver(...), which
\* end in build_chrome_driver: ChromeDriverManager().install() and
\* webdriver.Chrome(...) may raise): the exception goes to the caller, no
\* driver exists and quit() is not called.  The caller of crawl_kingfood is
\* left in the same way before the call: the import of kingfood_crawler
\* raises ImportError (see CallMakeUniqueCode).
StartFails ==
    /\ main = "none"
    /\ running = "none"
    /\ running' = "none"
    /\ items' = <<>>
    /\ products' = <<>>
    /\ driver' = "none"
    /\ quits' = 0
    /\ outcome' = "raised"
    /\ UNCHANGED <<callVars, mainVars>>

\* One pass of the loop of crawl_bhx: the next element of the page is read
\* and its record appended.
crawl_bhx ==
    /\ running = "bhx"
    /\ Len(items) < MaxItems
    /\ \E el \in NextElements(running) :
           /\ items' = Append(items, el)
           /\ products' = Append(products, crawl_bhx_record(el))
    /\ UNCHANGED <<running, driver, quits, outcome, callVars, mainVars>>

\* A loop that does not reset the promotion text: an element without a badge
\* keeps the promotion of the element before it.
crawl_mega_StalePromotion ==
    /\ running = "mega"
    /\ Len(items) < MaxItems
    /\ \E el \in NextElements(running) :
           LET own == crawl_mega_record(el)
               stale == IF products # <<>> /\ own.promotion = <<>>
                        THEN [own EXCEPT !.promotion = products[Len(products)].promotion]
                        ELSE own
           IN  /\ items' = Append(items, el)
               /\ products' = Append(products, stale)
    /\ UNCHANGED <<running, driver, quits, outcome, callVars, mainVars>>

\* One pass of the loop of crawl_mega: the next element of the page is read
\* and its record appended.
crawl_mega ==
    /\ running = "mega"
    /\ Len(items) < MaxItems
    /\ \E el \in NextElements(running) :
           /\ items' = Append(items, el)
           /\ products' = Append(products, crawl_mega_record(el))
    /\ UNCHANGED <<running, driver, quits, outcome, callVars, mainVars>>

\* One pass of the loop of crawl_lotte: the next element of the page is read
\* and its record appended.  An element whose href urljoin cannot parse is
\* passed over (except Exception: continue): it gives no record.
crawl_lotte ==
    /\ running = "lotte"
    /\ Len(items) < MaxItems
    /\ \E el \in NextElements(running) :
           /\ ~urlsplit_raises(OrEmpty(el.url))
           /\ items' = Append(items, el)
           /\ products' = Append(products, crawl_lotte_record(el))
    /\ UNCHANGED <<running, driver, quits, outcome, callVars, mainVars>>

\* One pass of the loop of crawl_kingfood: the next element of the page is read
\* and its record appended.  An element whose href urljoin cannot parse is
\* passed over (except Exception: continue): it gives no record.
crawl_kingfood ==
    /\ running = "kingfood"
    /\ Len(items) < MaxItems
    /\ \E el \in NextElements(running) :
           /\ ~urlsplit_raises(OrEmpty(el.url))
           /\ items' = Append(items, el)
           /\ products' = Append(products, crawl_kingfood_record(el))
    /\ UNCHANGED <<running, driver, quits, outcome, callVars, mainVars>>

\* One pass of the loop of crawl_coop: the next element of the page is read
\* and its record appended.  An element whose href urljoin cannot parse is
\* passed over (except Exception: continue): it gives no record.
crawl_coop ==
    /\ running = "coop"
    /\ Len(items) < MaxItems
    /\ \E el \in NextElements(running) :
           /\ startswith(OrEmpty(el.url), <<"h","t","t","p">>) \/ ~urlsplit_raises(OrEmpty(el.url))
           /\ items' = Append(items, el)
           /\ products' = Append(products, crawl_coop_record(el))
    /\ UNCHANGED <<running, driver, quits, outcome, callVars, mainVars>>

\* finally: driver.quit(); return products: the driver is quit and the list
\* goes to the caller.
Return ==
    /\ running # "none"
    /\ running' = "none"
    /\ items' = <<>>
    /\ products' = <<>>
    /\ driver' = "quit"
    /\ quits' = quits + 1
    /\ outcome' = "returned"
    /\ UNCHANGED <<callVars, mainVars>>

\* A crawler without its finally block: the exception leaves the function
\* with the driver open.
Raise_NoFinally ==
    /\ main = "none"
    /\ running # "none"
    /\ running' = "none"
    /\ items' = <<>>
    /\ products' = <<>>
    /\ outcome' = "raised"
    /\ UNCHANGED <<driver, quits, callVars, mainVars>>

\* A statement of the try block raises (driver.get, a wait, the pagination,
\* a statement of the loop outside the inner try blocks): the finally block
\* quits the driver and the exception goes to the caller, without products.
Raise ==
    /\ main = "none"
    /\ running # "none"
    /\ running' = "none"
    /\ items' = <<>>
    /\ products' = <<>>
    /\ driver' = "quit"
    /\ quits' = quits + 1
    /\ outcome' = "raised"
    /\ UNCHANGED <<callVars, mainVars>>

Next ==
    \/ Start
    \/ StartFails
    \/ Raise
    \/ crawl_bhx
    \/ crawl_mega
    \/ crawl_lotte
    \/ crawl_kingfood
    \/ crawl_coop
    \/ Return

Spec == Init /\ [][Next]_vars

(***************************************************************************)
(* Properties of the records.  products[i] is the record built from        *)
(* items[i].                                                               *)
(***************************************************************************)
\* C1: in every record appended by any crawler, packing is the raw result of
\* extract_packing_quantity(name) when that is one of "1", "4", "6", "12",
\* "20", "24" and "1" in every other case, so it is always in the list.
C1_PackingAllowed ==
    \A i \in DOMAIN products :
        LET raw == extract_packing_quantity(products[i].name)
        IN  /\ products[i].packing = (IF raw \in ALLOWED_PACKINGS THEN raw ELSE <<"1">>)
            /\ products[i].packing \in ALLOWED_PACKINGS

\* A page gave one record whose raw packing "24" was kept and one whose raw
\* packing "7" became "1".
C1_Witness ==
    /\ Len(products) = 2
    /\ products[1].name = Name_Thung24 /\ products[1].packing = <<"2","4">>
    /\ products[2].name = Name_Loc7 /\ products[2].packing = <<"1">>

\* C2: in every record, price >= price_after_promotion whenever both are
\* non-zero.
C2_PriceNotBelowPromotion ==
    \A i \in DOMAIN products :
        \/ products[i].price = 0
        \/ products[i].price_after_promotion = 0
        \/ products[i].price >= products[i].price_after_promotion

\* C3: in every record, product_key is make_product_key of that record's
\* brand, capacity and validated packing, so two records with the same
\* brand, capacity and packing carry the same key whatever their names and
\* prices.
C3_KeyOfOwnFields ==
    /\ \A i \in DOMAIN products :
           products[i].product_key =
               make_product_key(products[i].brand, products[i].capacity, products[i].packing)
    /\ \A i, j \in DOMAIN products :
           (/\ products[i].brand = products[j].brand
            /\ products[i].capacity = products[j].capacity
            /\ products[i].packing = products[j].packing)
               => products[i].product_key = products[j].product_key

\* One page gave the same name at two prices: two different records, one key.
C3_Witness ==
    /\ Len(products) = 2
    /\ products[1].name = Name_Thung24 /\ products[2].name = Name_Thung24
    /\ products[1].price # products[2].price
    /\ products[1].product_key = products[2].product_key
    /\ products[1].product_key # <<>>

\* C7: the record assembled from the scenario's element has brand
\* "Heineken", capacity "330ml", unit "Thung" (with the grave), packing "24",
\* price 410000, price_after_promotion 410000, promotion "3%" and
\* product_key "HEINEKEN_330ML_24".
C7_EndToEnd ==
    \A i \in DOMAIN products :
        items[i] = ScenarioElement =>
            /\ products[i].brand = <<"H","e","i","n","e","k","e","n">>
            /\ products[i].capacity = <<"3","3","0","m","l">>
            /\ products[i].unit = <<"T","h","u:g","n","g">>
            /\ products[i].packing = <<"2","4">>
            /\ products[i].price = 410000
            /\ products[i].price_after_promotion = 410000
            /\ products[i].promotion = <<"3","%">>
            /\ products[i].product_key =
                   <<"H","E","I","N","E","K","E","N","_","3","3","0","M","L","_","2","4">>

\* crawl_bhx met the scenario's element second on its page and appended a
\* record for it.
C7_Witness ==
    /\ running = "bhx"
    /\ Len(products) = 2
    /\ items[2] = ScenarioElement
    /\ products[2].source = "bachhoaxanh"
    /\ products[2].price = 410000

\* C8: in every record of every crawler, price is the parsed struck-through
\* price when that is not zero and the parsed current price otherwise, and
\* price_after_promotion is the parsed current price.
C8_OriginalElseCurrent ==
    \A i \in DOMAIN products :
        LET Shown(text) == IF running = "mega" THEN InnerText(text, <<>>) ELSE strip(text)
            original == extract_price_int(Shown(items[i].price_original_text))
            current == extract_price_int(Shown(items[i].price_after_text))
        IN  /\ products[i].price = (IF original # 0 THEN original ELSE current)
            /\ products[i].price_after_promotion = current

\* crawl_mega built one record from a struck-through price and one from the
\* current price alone; the struck-through price of the first is the higher.
C8_Witness ==
    /\ running = "mega"
    /\ Len(products) = 2
    /\ items[1].price_original_text = Text_450
    /\ products[1].price = 450000 /\ products[1].price_after_promotion = 410000
    /\ items[2].price_original_text = <<>>
    /\ products[2].price = 410000 /\ products[2].price_after_promotion = 410000

\* C9: in every record of every crawler, promotion is the percentage parsed
\* from the promotion text when there is one; otherwise, when
\* price > price_after_promotion > 0, it is
\* (price - price_after_promotion) * 100 / price rounded to two decimals,
\* written without a fraction when whole; otherwise it is empty.
C9_ParsedElseDerived ==
    \A i \in DOMAIN products :
        LET promotion_text ==
                CASE running = "lotte" -> lotte_PromoText(items[i])
                  [] running = "kingfood" -> kingfood_PromoText(items[i])
                  [] running = "coop" -> coop_PromoText(items[i])
                  [] running = "bhx" -> bhx_PromoText(items[i])
                  [] OTHER -> InnerText(items[i].promo_text, <<" ">>)
            parsed == extract_promotion_from_text(promotion_text)
            price == products[i].price
            after == products[i].price_after_promotion
        IN  products[i].promotion =
                (IF parsed # <<>> THEN parsed
                 ELSE IF price > after /\ after > 0
                 THEN DiscountText(RoundedDiscount(price, after))
                 ELSE <<>>)

\* C10: in every record of every crawler, unit is "Thung" (with the grave),
\* "Lon", "Chai" or empty.
C10_UnitEnum ==
    \A i \in DOMAIN products :
        products[i].unit \in { <<"T","h","u:g","n","g">>, <<"L","o","n">>,
                               <<"C","h","a","i">>, <<>> }

\* C10, amended: unit is "Thung" (with the grave), "Lon", "Chai" or empty in
\* every record of bhx, mega, lotte and kingfood and in every coop record
\* whose card gives no unit; a coop record whose card gives one (the unit
\* text after its first ":", stripped, or the whole text when it has no ":")
\* carries that text as it is.
C10_UnitEnumOrCardText ==
    \A i \in DOMAIN products :
        LET card == coop_CardUnit(items[i].unit_text)
        IN  IF running = "coop" /\ card # <<>>
            THEN products[i].unit = card
            ELSE products[i].unit \in { <<"T","h","u:g","n","g">>, <<"L","o","n">>,
                                        <<"C","h","a","i">>, <<>> }

\* crawl_coop took the unit "Loc 6" (with its marks) of one record from the
\* card and the unit "Thung" of the next from the name.
C10_Witness ==
    /\ running = "coop"
    /\ Len(products) = 2
    /\ items[1].unit_text = Unit_Loc6 /\ products[1].unit = Unit_Loc6
    /\ items[2].unit_text = <<>> /\ items[2].name = Name_Thung24
    /\ products[2].unit = <<"T","h","u:g","n","g">>

(***************************************************************************)
(* Direct calls of normalize_name on generated strings.                    *)
(***************************************************************************)
RECURSIVE StringsUpTo(_, _)
\* All strings over alphabet A of length at most n.
StringsUpTo(A, n) ==
    IF n = 0 THEN {<<>>}
    ELSE LET shorter == StringsUpTo(A, n - 1)
         IN  shorter \cup {Append(s, c) : s \in shorter, c \in A}

\* One character of every class normalize_name tells apart.
NormAlphabet == {"a", "B", "7", " ", "TAB", "-", "U:g", ":a", "d:-", "3:ar"}
NormArgs == StringsUpTo(NormAlphabet, MaxStrLen)

InitNormalize == CrawlIdle /\ MainIdle /\ CallIdle /\ arg \in NormArgs

\* normalized_name = normalize_name(name)
CallNormalize ==
    /\ called = "none"
    /\ called' = "normalize_name"
    /\ ret' = normalize_name(arg)
    /\ UNCHANGED <<crawlVars, arg, raised, mainVars>>

\* normalize_name applied to its own result.
CallNormalizeAgain ==
    /\ called = "normalize_name"
    /\ called' = "normalize_name twice"
    /\ arg' = ret
    /\ ret' = normalize_name(ret)
    /\ UNCHANGED <<crawlVars, raised, mainVars>>

NextNormalize == CallNormalize \/ CallNormalizeAgain

SpecNormalize == InitNormalize /\ [][NextNormalize]_vars

\* C4: whatever the argument, normalize_name returns only the characters a-z,
\* 0-9 and the ASCII space, with no leading space, no trailing space and no
\* two spaces in a row.
C4_NormalizedAlphabet ==
    called = "normalize_name" =>
        /\ \A i \in 1..Len(ret) :
               IsAsciiLower(ret[i]) \/ IsAsciiDigit(ret[i]) \/ ret[i] = " "
        /\ ret # <<>> => ret[1] # " " /\ ret[Len(ret)] # " "
        /\ \A i \in 1..(Len(ret) - 1) : ~(ret[i] = " " /\ ret[i + 1] = " ")

\* An upper case letter, a hyphen and an accented upper case letter came out
\* as two lower case words.
C4_Witness ==
    called = "normalize_name" /\ arg = <<"B", "-", "U:g">> /\ ret = <<"b", " ", "u">>

\* C5: normalize_name is idempotent: called on its own result (arg of the
\* second call) it returns that argument unchanged.
C5_Idempotent == called = "normalize_name twice" => ret = arg

\* The second call was made on a two-word result of the first.
C5_Witness ==
    called = "normalize_name twice" /\ Len(arg) = 3 /\ arg[2] = " " /\ ret # <<>>

(***************************************************************************)
(* Direct calls of make_product_key.                                       *)
(***************************************************************************)
KeyAlphabet == {"a", "B", " ", "TAB", "o:g"}
KeyBrands ==
    StringsUpTo(KeyAlphabet, MaxStrLen)
        \cup { NoneVal,
               <<"H","e","i","n","e","k","e","n">>,
               <<"S","a:g","i"," ","G","o:g","n">>,
               <<" ","1","6","6","4"," ","B","l","a","n","c"," ">>,
               <<"a","CR">> }
KeyCapacities == { NoneVal, <<>>, <<" ">>, <<"3","3","0","m","l">>, <<" ","3","3","c","l","LF">> }
KeyPackings == { NoneVal, <<>>, <<"TAB">>, <<"2","4">>, <<"6"," ">> }

InitKey ==
    /\ CrawlIdle
    /\ MainIdle
    /\ CallIdle
    /\ arg \in KeyBrands \X KeyCapacities \X KeyPackings

\* product_key = make_product_key(brand=..., capacity=..., packing=...)
CallMakeProductKey ==
    /\ called = "none"
    /\ called' = "make_product_key"
    /\ ret' = make_product_key(arg[1], arg[2], arg[3])
    /\ UNCHANGED <<crawlVars, arg, raised, mainVars>>

NextKey == CallMakeProductKey

SpecKey == InitKey /\ [][NextKey]_vars

\* C6: the key is the stripped inputs, the brand without its inner spaces,
\* every part that is empty after stripping dropped, the others upper-cased
\* and joined by "_" in the order brand, capacity, packing; in particular
\* ("Heineken", "330ml", "24") gives "HEINEKEN_330ML_24" and three empty or
\* None inputs give "".
C6_KeyFormat ==
    called = "make_product_key" =>
        LET Part(x) == IF x = NoneVal THEN <<>> ELSE upper(strip(x))
            B == SelectSeq(Part(arg[1]), LAMBDA ch : ch # " ")
            C == Part(arg[2])
            P == Part(arg[3])
            sepBC == IF B # <<>> /\ (C # <<>> \/ P # <<>>) THEN <<"_">> ELSE <<>>
            sepCP == IF C # <<>> /\ P # <<>> THEN <<"_">> ELSE <<>>
        IN  /\ ret = B \o sepBC \o C \o sepCP \o P
            /\ arg = << <<"H","e","i","n","e","k","e","n">>, <<"3","3","0","m","l">>, <<"2","4">> >>
                  => ret = <<"H","E","I","N","E","K","E","N","_","3","3","0","M","L","_","2","4">>
            /\ (\A i \in 1..3 : arg[i] \in {NoneVal, <<>>}) => ret = <<>>

\* A brand with an inner space and blanks around it, no capacity, and a
\* packing with a trailing blank gave a two-part key.
C6_Witness ==
    /\ called = "make_product_key"
    /\ arg = << <<" ","1","6","6","4"," ","B","l","a","n","c"," ">>, NoneVal, <<"6"," ">> >>
    /\ ret = <<"1","6","6","4","B","L","A","N","C","_","6">>

(***************************************************************************)
(* Exceptions of the extractors.  Each operator follows the control flow   *)
(* of its function and gives the exception the first failing operation    *)
(* propagates, "none" when the function returns.  str.lower, the in        *)
(* operator, str.startswith, str.replace, re.sub and unicodedata.normalize *)
(* are total on strings: extract_unit, extract_brand and normalize_name    *)
(* contain no other operation.                                             *)
(***************************************************************************)
\* match.group(...) on the result of re.search, None (-1) when nothing
\* matched.
group_raises(match) == IF match = -1 THEN "AttributeError" ELSE "none"

\* list[0] and list[-1].
subscript_raises(list) == IF list = <<>> THEN "IndexError" ELSE "none"

\* int(digits) for a string of decimal digits only: the empty string is no
\* literal, and CPython 3.11 refuses a literal of more than 4300 digits.
int_raises(digits) ==
    IF digits = <<>> \/ Len(digits) > 4300 THEN "ValueError" ELSE "none"

extract_capacity_raises(text) ==
    LET lowered == lower(text)
        match_ml == SearchNumberThenWord(lowered, 0, {<<"m","l">>})
        match_cl == SearchNumberThenWord(lowered, 0, {<<"c","l">>})
    IN  IF match_ml # -1 THEN group_raises(match_ml)
        ELSE IF match_cl # -1 THEN group_raises(match_cl)
        ELSE "none"

extract_unit_raises(text) == "none"

extract_packing_quantity_raises(text) ==
    LET lowered == lower(text)
        match == SearchNumberThenWord(lowered, 0, {<<"l","o","n">>, <<"c","h","a","i">>})
        match2 == SearchWordThenNumber(lowered, 0, PackWords)
        candidates == FirstNonCapacityNumber(lowered, 0)
    IN  IF match # -1 THEN group_raises(match)
        ELSE IF match2 # -1 THEN group_raises(match2)
        ELSE IF candidates # <<>> THEN subscript_raises(candidates)
        ELSE "none"

\* return int(digits) if digits else 0: int stands in no try block, and what
\* it raises leaves extract_price_int.
extract_price_int_raises(price_text) ==
    IF price_text = <<>> THEN "none"
    ELSE LET money_part == BeforeFirst(price_text, "d:-")
             digits == OnlyDigits(money_part)
         IN  IF digits # <<>> THEN int_raises(digits) ELSE "none"

extract_brand_raises(text) == "none"

\* float(value) is inside try ... except ValueError, and int(num) is
\* applied to a whole, hence finite, number.
extract_promotion_from_text_raises(text) ==
    IF text = <<>> THEN "none"
    ELSE LET matches == FindAllPercent(text, 0)
         IN  IF matches = <<>> THEN "none" ELSE subscript_raises(matches)

normalize_name_raises(text) == "none"

(***************************************************************************)
(* Direct calls of the extractors on generated strings: every phrase of at *)
(* most MaxWords words of a small vocabulary per extractor.                *)
(***************************************************************************)
RECURSIVE Phrases(_, _)
\* All concatenations of at most n words of W.
Phrases(W, n) ==
    IF n = 0 THEN {<<>>}
    ELSE LET shorter == Phrases(W, n - 1)
         IN  shorter \cup {s \o w : s \in shorter, w \in W}

CapacityWords ==
    { <<"3","3","0","m","l">>, <<"3","3","c","l">>, <<"5">>, <<" ">>,
      <<"M","L">>, <<"C","l">> }
CapacityArgs == Phrases(CapacityWords, MaxWords)

UnitWords ==
    { <<"T","h","u:g","n","g">>, <<"l","o","n">>, <<"C","H","A","I">>, <<" ">>, <<"b","i","a">> }
UnitArgs == Phrases(UnitWords, MaxWords)

PackingWords ==
    { <<"t","h","u:g","n","g">>, <<"2","4">>, <<" ">>, <<"l","o","n">>,
      <<"3","3","0","m","l">>, <<"H","o:dc","p">>, <<"6">>, <<"h","o","p">> }
\* The phrases, names with a number after a pack word and another one
\* before "lon" or "chai", and a name with a number before and after "hop".
PackingArgs ==
    Phrases(PackingWords, MaxWords)
        \cup { <<"T","h","u:g","n","g"," ","2","4"," ","l","o","n"," ","b","i","a"," ",
                 "3","3","0","m","l">>,
               <<"l","o:ca","c"," ","6"," ","2","4"," ","l","o","n">>,
               <<"H","o:dc","p"," ","1","2"," ","x"," ","6"," ","C","h","a","i"," ",
                 "2","4"," ","l","o","n">>,
               <<"6"," ","h","o","p"," ","2","4">> }

\* At most two digits a word: the prices stay below 2^31.
PriceWords ==
    { <<"4","1">>, <<".","0">>, <<"d:-">>, <<" ","/","2","4">>, <<"a">>,
      <<"D:-">>, <<",","3:ar">> }
PriceArgs ==
    Phrases(PriceWords, MaxWords)
        \cup { <<"4","1","0",".","0","0","0","d:-"," ","/","2","4"," ","l","o","n"," ",
                 "3","3","0","m","l">>,
               <<"a","b","c">> }

PromotionWords ==
    { <<"3">>, <<"%">>, <<"1","2","%">>, <<",","9","8">>, <<".","5","0">>, <<" ">>, <<"-">> }
PromotionArgs ==
    Phrases(PromotionWords, MaxWords)
        \cup { <<"G","i","a","m"," ","1",",","9","8","%"," ","A","B","C">>,
               <<"n","o"," ","p","e","r","c","e","n","t"," ","h","e","r","e">> }

BrandWords ==
    { <<"1","6","6","4">>, <<"H","e","i","n","e","k","e","n">>, <<"H","a:g"," ","N","o:dc","i">>,
      <<"s","a","i","g","o","n">>, <<"C","a","r","s","b","e","r","g">>,
      <<"e","a","s","t","w","e","s","t">>, <<"b","u","d">>, <<" ">>,
      <<"d","a"," ","l","a","t"," ","c","i","d","e","r">> }
\* The phrases, and names with one or two entries of the vocabulary or none.
BrandArgs ==
    Phrases(BrandWords, MaxWords)
        \cup { <<"B","i","a"," ","T","r","u:a","c"," ","B","a:d","c","h"," ",
                 "S","l","e","e","k"," ","3","3","0","m","l">>,
               <<"B","i","a"," ","T","r","u:a","c"," ","B","a:d","c","h"," ",
                 "3","3","0","m","l">>,
               <<"T","i","g","e","r"," ","H","E","I","N","E","K","E","N"," ","l","o","n">>,
               <<"C","h","a","n","g"," ","c","h","i","l","l">>,
               <<"b","i","a"," ","h","o","i">> }

\* The texts of every extractor.
ExtractArgs ==
    NormArgs \cup CapacityArgs \cup UnitArgs \cup PackingArgs
        \cup PriceArgs \cup PromotionArgs \cup BrandArgs

\* A price text of 4301 digits, one more than int() converts.
LongDigits == [i \in 1..4301 |-> "1"]

InitExtract ==
    /\ CrawlIdle
    /\ MainIdle
    /\ CallIdle
    /\ arg \in ExtractArgs

\* The same calls, and the call of extract_price_int on the long price text.
InitExtractLong ==
    /\ CrawlIdle
    /\ MainIdle
    /\ CallIdle
    /\ arg \in ExtractArgs \cup {LongDigits}

\* capacity = extract_capacity(name)
CallExtractCapacity ==
    /\ called = "none"
    /\ arg \in CapacityArgs
    /\ called' = "extract_capacity"
    /\ raised' = extract_capacity_raises(arg)
    /\ ret' = IF raised' = "none" THEN extract_capacity(arg) ELSE NoneVal
    /\ UNCHANGED <<crawlVars, arg, mainVars>>

\* unit = extract_unit(name)
CallExtractUnit ==
    /\ called = "none"
    /\ arg \in UnitArgs
    /\ called' = "extract_unit"
    /\ raised' = extract_unit_raises(arg)
    /\ ret' = IF raised' = "none" THEN extract_unit(arg) ELSE NoneVal
    /\ UNCHANGED <<crawlVars, arg, mainVars>>

\* packing = extract_packing_quantity(name)
CallExtractPackingQuantity ==
    /\ called = "none"
    /\ arg \in PackingArgs
    /\ called' = "extract_packing_quantity"
    /\ raised' = extract_packing_quantity_raises(arg)
    /\ ret' = IF raised' = "none" THEN extract_packing_quantity(arg) ELSE NoneVal
    /\ UNCHANGED <<crawlVars, arg, mainVars>>

\* price_after_int = extract_price_int(price_after_text)
CallExtractPriceInt ==
    /\ called = "none"
    /\ arg \in PriceArgs \cup {LongDigits}
    /\ called' = "extract_price_int"
    /\ raised' = extract_price_int_raises(arg)
    /\ ret' = IF raised' = "none" THEN extract_price_int(arg) ELSE NoneVal
    /\ UNCHANGED <<crawlVars, arg, mainVars>>

\* brand = extract_brand(name)
CallExtractBrand ==
    /\ called = "none"
    /\ arg \in BrandArgs
    /\ called' = "extract_brand"
    /\ raised' = extract_brand_raises(arg)
    /\ ret' = IF raised' = "none" THEN extract_brand(arg) ELSE NoneVal
    /\ UNCHANGED <<crawlVars, arg, mainVars>>

\* promotion = extract_promotion_from_text(promo_text)
CallExtractPromotion ==
    /\ called = "none"
    /\ arg \in PromotionArgs
    /\ called' = "extract_promotion_from_text"
    /\ raised' = extract_promotion_from_text_raises(arg)
    /\ ret' = IF raised' = "none" THEN extract_promotion_from_text(arg) ELSE NoneVal
    /\ UNCHANGED <<crawlVars, arg, mainVars>>

\* normalized_name = normalize_name(name), on the strings of every extractor
CallNormalizeName ==
    /\ called = "none"
    /\ arg \in ExtractArgs
    /\ called' = "normalize_name"
    /\ raised' = normalize_name_raises(arg)
    /\ ret' = IF raised' = "none" THEN normalize_name(arg) ELSE NoneVal
    /\ UNCHANGED <<crawlVars, arg, mainVars>>

NextExtract ==
    \/ CallExtractCapacity
    \/ CallExtractUnit
    \/ CallExtractPackingQuantity
    \/ CallExtractPriceInt
    \/ CallExtractBrand
    \/ CallExtractPromotion
    \/ CallNormalizeName

SpecExtract == InitExtract /\ [][NextExtract]_vars

SpecExtractLong == InitExtractLong /\ [][NextExtract]_vars

\* C11: no extractor raises, whatever the string: when its pattern does not
\* occur in the text (the empty text included), extract_capacity,
\* extract_unit, extract_packing_quantity, extract_brand,
\* extract_promotion_from_text and normalize_name return "" and
\* extract_price_int returns 0.
C11_NoRaiseEmptyWhenAbsent ==
    LET lowered == lower(arg)
        Last == Len(arg)
        \* a digit, then blanks only, then the word w
        NumberBefore(s, w) ==
            \E i \in 1..Len(s) : \E k \in i..Len(s) :
                /\ IsDigitCh(s[i])
                /\ \A m \in (i + 1)..k : IsSpaceCh(s[m])
                /\ StartsWithAt(s, k, w)
        \* a word of W, then blanks only, then a digit
        NumberAfter(s, W) ==
            \E w \in W : \E i \in 0..Len(s) : \E k \in (i + Len(w) + 1)..Len(s) :
                /\ StartsWithAt(s, i, w)
                /\ \A m \in (i + Len(w) + 1)..(k - 1) : IsSpaceCh(s[m])
                /\ IsDigitCh(s[k])
        \* every number of the text is a capacity
        OnlyCapacities(s) ==
            \A i \in 1..Len(s) :
                IsDigitCh(s[i]) /\ (i = Len(s) \/ ~IsDigitCh(s[i + 1]))
                    => \E k \in i..Len(s) :
                           /\ \A m \in (i + 1)..k : IsSpaceCh(s[m])
                           /\ StartsWithAt(s, k, <<"m","l">>) \/ StartsWithAt(s, k, <<"c","l">>)
        Triggers ==
            { <<"1","6","6","4">>, <<"b","l","a","n","c">>, <<"h","a","n","o","i">>,
              <<"h","a:g"," ","n","o:dc","i">>, <<"s","a","i","g","o","n">>,
              <<"s","a:g","i"," ","g","o:g","n">>, <<"c","a","r","l","s","b","e","r","g">>,
              <<"c","a","r","s","b","e","r","g">>, <<"f","a","r"," ","e","a","s","t">>,
              <<"e","a","s","t"," ","w","e","s","t">>, <<"e","a","s","t","w","e","s","t">>,
              <<"b","u","d"," ">>, <<"d","a","l","a","t"," ","c","i","d","e","r">>,
              <<"d","a"," ","l","a","t"," ","c","i","d","e","r">> }
        Alnum(ch) ==
            \E j \in 1..Len(NFDCh(LowerCh(ch))) :
                IsAsciiLower(NFDCh(LowerCh(ch))[j]) \/ IsAsciiDigit(NFDCh(LowerCh(ch))[j])
    IN  called # "none" =>
            /\ raised = "none"
            /\ called = "extract_capacity"
                   /\ ~NumberBefore(lowered, <<"m","l">>) /\ ~NumberBefore(lowered, <<"c","l">>)
                   => ret = <<>>
            /\ called = "extract_unit"
                   /\ (\A w \in {<<"t","h","u:g","n","g">>, <<"l","o","n">>, <<"c","h","a","i">>} :
                           ~Contains(lowered, w))
                   => ret = <<>>
            /\ called = "extract_packing_quantity"
                   /\ OnlyCapacities(lowered) /\ ~NumberAfter(lowered, PackWords)
                   => ret = <<>>
            /\ called = "extract_price_int"
                   /\ (\A i \in 1..Last : IsDigitCh(arg[i]) => \E k \in 1..(i - 1) : arg[k] = "d:-")
                   => ret = 0
            /\ called = "extract_brand"
                   /\ (\A w \in Triggers : ~Contains(lowered, w))
                   /\ ~startswith(lowered, <<"b","u","d">>)
                   /\ (\A b \in 1..Len(BRANDS) : ~Contains(lowered, lower(BRANDS[b])))
                   => ret = <<>>
            /\ called = "extract_promotion_from_text" /\ ~NumberBefore(arg, <<"%">>)
                   => ret = <<>>
            /\ called = "normalize_name" /\ (\A i \in 1..Last : ~Alnum(arg[i]))
                   => ret = <<>>

(***************************************************************************)
(* Properties of the loops.                                                *)
(***************************************************************************)
\* C12: the record of an item depends on that item's own raw inputs only:
\* wherever the item stands on the page and whatever was processed before
\* it, its record is the one the loop body builds from it alone, so equal
\* items have equal records and no value of one item shows in another's.
C12_OwnInputsOnly ==
    /\ Len(products) = Len(items)
    /\ \A i \in 1..Len(items) :
           products[i] = CASE running = "bhx" -> crawl_bhx_record(items[i])
                           [] running = "mega" -> crawl_mega_record(items[i])
                           [] running = "lotte" -> crawl_lotte_record(items[i])
                           [] running = "kingfood" -> crawl_kingfood_record(items[i])
                           [] running = "coop" -> crawl_coop_record(items[i])
    /\ \A i, j \in 1..Len(items) : items[i] = items[j] => products[i] = products[j]

\* crawl_mega read an element with a discount badge and then one without:
\* the second record has no promotion.
C12_Witness ==
    /\ running = "mega"
    /\ Len(products) = 2
    /\ items[1].promo_text # <<>> /\ products[1].promotion # <<>>
    /\ items[2].promo_text = <<>> /\ products[2].promotion = <<>>
    /\ items[1].name = items[2].name

(***************************************************************************)
(* main.py: main() and write_products_to_csv.                              *)
(***************************************************************************)
FIELDNAMES ==
    << "source", "code", "name", "brand", "normalized_name", "unit", "packing", "size",
       "capacity", "price", "price_after_promotion", "promotion", "url", "note",
       "crawl_date", "product_key" >>

\* item.get(field, "")
get(item, field) == IF field \in DOMAIN item THEN item[field] ELSE <<>>

\* A writer that writes the fields an item has and skips the others.
write_products_to_csv_PresentOnly(products_) ==
    [ header |-> FIELDNAMES,
      rows |-> [i \in 1..Len(products_) |->
                   LET present == SelectSeq(FIELDNAMES, LAMBDA f : f \in DOMAIN products_[i])
                   IN  [j \in 1..Len(present) |-> products_[i][present[j]]]] ]

\* The file DictWriter writes: writeheader() writes the field names, and
\* writerow(row) the values of row in the order of fieldnames.
write_products_to_csv(products_) ==
    [ header |-> FIELDNAMES,
      rows |-> [i \in 1..Len(products_) |->
                   [j \in 1..Len(FIELDNAMES) |-> get(products_[i], FIELDNAMES[j])]] ]

\* The source names of the command line, as strings.
Src_bhx == <<"b","h","x">>
Src_mega == <<"m","e","g","a">>
Src_lotte == <<"l","o","t","t","e">>
Src_kingfood == <<"k","i","n","g","f","o","o","d">>
Src_coop == <<"c","o","o","p">>
Src_all == <<"a","l","l">>

\* crawler_map: source name -> crawler function
crawler_map ==
    [s \in {Src_bhx, Src_mega, Src_lotte, Src_kingfood, Src_coop} |->
        CASE s = Src_bhx -> "bhx"
          [] s = Src_mega -> "mega"
          [] s = Src_lotte -> "lotte"
          [] s = Src_kingfood -> "kingfood"
          [] s = Src_coop -> "coop"]

\* args.sources: the default, lists in several orders, upper case, an
\* unknown name, "all" among other names, a name given twice.
SourceArgs ==
    { <<Src_all>>,
      <<Src_bhx, Src_coop>>,
      <<Src_coop, Src_bhx>>,
      <<<<"C","O","O","P">>, <<"x","y","z">>, <<"B","h","x">>>>,
      <<Src_mega, <<"A","l","l">>>>,
      <<Src_lotte>>,
      <<Src_kingfood, Src_mega, Src_kingfood>>,
      <<<<"x","y","z">>>> }

\* A resolution that honours "all" only when it is the one name given.
ResolvedSources_AllAlone(names) ==
    LET lowered == [i \in 1..Len(names) |-> lower(names[i])]
    IN  IF lowered = <<Src_all>>
        THEN <<Src_bhx, Src_mega, Src_lotte, Src_kingfood, Src_coop>>
        ELSE lowered

\* srcs = [src.lower() for src in args.sources]; "all" stands for the five
\* sources.
ResolvedSources(names) ==
    LET lowered == [i \in 1..Len(names) |-> lower(names[i])]
    IN  IF \E i \in 1..Len(lowered) : lowered[i] = Src_all
        THEN <<Src_bhx, Src_mega, Src_lotte, Src_kingfood, Src_coop>>
        ELSE lowered

\* An aggregation that puts the newest source first.
extend_NewestFirst(list, more) == more \o list

\* list.extend(more)
extend(list, more) == list \o more

\* python main.py --sources ... has been started: nothing is imported yet.
InitMain ==
    /\ CrawlIdle
    /\ CallIdle
    /\ arg = NoneVal
    /\ main = "start"
    /\ sources \in SourceArgs
    /\ srcs = <<>>
    /\ log = <<>>
    /\ all_products = <<>>
    /\ csv_file = NoFile

\* main.py cannot be imported: its line 31 imports kingfood_crawler, whose
\* import of make_unique_code from helpers raises ImportError, helpers
\* defining no such function.  The exception ends the program before main()
\* is run; the other steps are those of the program with the function in
\* place.
MainImportFails ==
    /\ main = "start"
    /\ main' = "raised"
    /\ UNCHANGED <<crawlVars, callVars, sources, srcs, log, all_products, csv_file>>

\* The imports succeed and main() parses the command line: the sources are
\* resolved and all_products = [].
ResolveSources ==
    /\ main = "start"
    /\ main' = "loop"
    /\ srcs' = ResolvedSources(sources)
    /\ all_products' = <<>>
    /\ UNCHANGED <<crawlVars, callVars, sources, log, csv_file>>

\* LOGGER.warning(msg, *args) and LOGGER.info(msg, *args)
warning(msg, args) == [level |-> "WARNING", msg |-> msg, args |-> args]
info(msg, args) == [level |-> "INFO", msg |-> msg, args |-> args]

\* for src in srcs: an unknown source is skipped with a warning.
MainSkip ==
    /\ main = "loop"
    /\ running = "none"
    /\ srcs # <<>>
    /\ Head(srcs) \notin DOMAIN crawler_map
    /\ log' = Append(log, warning("Unknown source '%s'. Skipping.", <<Head(srcs)>>))
    /\ srcs' = Tail(srcs)
    /\ UNCHANGED <<crawlVars, callVars, main, sources, all_products, csv_file>>

\* products = func(headless=args.headless): the crawler starts, with its
\* driver built, products = [] and the page loaded.
MainCall ==
    /\ main = "loop"
    /\ running = "none"
    /\ srcs # <<>>
    /\ Head(srcs) \in DOMAIN crawler_map
    /\ log' = Append(log, info("Running crawler for source: %s", <<Head(srcs)>>))
    /\ running' = crawler_map[Head(srcs)]
    /\ items' = <<>>
    /\ products' = <<>>
    /\ driver' = "open"
    /\ quits' = 0
    /\ outcome' = "none"
    /\ UNCHANGED <<callVars, main, sources, srcs, all_products, csv_file>>

\* products = func(headless=args.headless) when the driver cannot be built:
\* the crawler raises before a driver exists, and the exception leaves
\* main(), which has no try block.
MainCallFails ==
    /\ main = "loop"
    /\ running = "none"
    /\ srcs # <<>>
    /\ Head(srcs) \in DOMAIN crawler_map
    /\ log' = Append(log, info("Running crawler for source: %s", <<Head(srcs)>>))
    /\ running' = "none"
    /\ items' = <<>>
    /\ products' = <<>>
    /\ driver' = "none"
    /\ quits' = 0
    /\ outcome' = "raised"
    /\ main' = "raised"
    /\ UNCHANGED <<callVars, sources, srcs, all_products, csv_file>>

\* The crawler returns its products and main extends all_products with them.
MainExtend ==
    /\ main = "loop"
    /\ running # "none"
    /\ log' = Append(log, info("Source %s: %d products collected.",
                                <<Head(srcs), Len(products)>>))
    /\ all_products' = extend(all_products, products)
    /\ srcs' = Tail(srcs)
    /\ running' = "none"
    /\ items' = <<>>
    /\ products' = <<>>
    /\ driver' = "quit"
    /\ quits' = quits + 1
    /\ outcome' = "returned"
    /\ UNCHANGED <<callVars, main, sources, csv_file>>

\* A main that writes what it has collected when a crawler raises.
MainRaise_WritePartial ==
    /\ main = "loop"
    /\ running # "none"
    /\ running' = "none"
    /\ items' = <<>>
    /\ products' = <<>>
    /\ driver' = "quit"
    /\ quits' = quits + 1
    /\ outcome' = "raised"
    /\ csv_file' = write_products_to_csv(all_products)
    /\ main' = "raised"
    /\ UNCHANGED <<callVars, sources, srcs, log, all_products>>

\* The crawler raises: its finally block quits the driver, and the exception
\* leaves func(headless=args.headless) and main(), which has no try block:
\* nothing after the loop is run.
MainRaise ==
    /\ main = "loop"
    /\ running # "none"
    /\ running' = "none"
    /\ items' = <<>>
    /\ products' = <<>>
    /\ driver' = "quit"
    /\ quits' = quits + 1
    /\ outcome' = "raised"
    /\ main' = "raised"
    /\ UNCHANGED <<callVars, sources, srcs, log, all_products, csv_file>>

\* write_products_to_csv(all_products, args.output), after the loop: the
\* file is opened and written.
MainWrite ==
    /\ main = "loop"
    /\ running = "none"
    /\ srcs = <<>>
    /\ csv_file' = write_products_to_csv(all_products)
    /\ main' = "done"
    /\ UNCHANGED <<crawlVars, callVars, sources, srcs, log, all_products>>

\* write_products_to_csv(all_products, args.output) when open(output_path,
\* "w") raises: the directory of the path does not exist (nothing creates
\* output/, the directory of the default path) or cannot be written to.
\* FileNotFoundError or PermissionError leaves write_products_to_csv and
\* main(), which have no try block; no file is written.
MainWriteFails ==
    /\ main = "loop"
    /\ running = "none"
    /\ srcs = <<>>
    /\ main' = "raised"
    /\ UNCHANGED <<crawlVars, callVars, sources, srcs, log, all_products, csv_file>>

NextMain ==
    \/ MainImportFails
    \/ ResolveSources
    \/ MainSkip
    \/ MainCall
    \/ MainCallFails
    \/ crawl_bhx
    \/ crawl_mega
    \/ crawl_lotte
    \/ crawl_kingfood
    \/ crawl_coop
    \/ MainExtend
    \/ MainRaise
    \/ MainWrite
    \/ MainWriteFails

SpecMain == InitMain /\ [][NextMain]_vars

\* C13: a record is never modified after it has been appended: every later
\* step (further items and pages, the aggregation in main, the writing of
\* the CSV file) leaves the records already in a crawler's products list and
\* in main's combined list as they are, and both lists only grow at the end;
\* the aggregation takes the returned records over unchanged.
C13_AppendOnly ==
    [][LET IsPrefix(a, b) == Len(a) <= Len(b) /\ \A i \in 1..Len(a) : b[i] = a[i]
       IN  /\ running # "none" /\ running' = running => IsPrefix(products, products')
           /\ IsPrefix(all_products, all_products')
           /\ running # "none" /\ running' = "none" /\ outcome' = "returned"
                  => all_products' = all_products \o products
           /\ main # "done" /\ main' = "done"
                  => all_products' = all_products /\ products' = products]_vars

\* Two crawlers have returned two records each, main has combined them in
\* the order of the calls and written the file.
C13_Witness ==
    /\ main = "done"
    /\ Len(all_products) = 4
    /\ all_products[1].source = "bachhoaxanh" /\ all_products[3].source = "cooponline"
    /\ all_products[1] # all_products[2]
    /\ Len(csv_file.rows) = 4

(***************************************************************************)
(* Direct calls of make_unique_code on two argument triples.               *)
(***************************************************************************)
CodeSources == {"kingfood", "coop"}
CodeKeys == { <<"H","E","I","N","E","K","E","N","_","3","3","0","M","L","_","2","4">>, <<"1">>, <<>> }
CodeNames ==
    { <<"b","i","a"," ","h","e","i","n","e","k","e","n"," ","2","4">>,
      <<"b","i","a"," ","h","e","i","n","e","k","e","n"," ","2","0">>,
      <<"b","i","a">>, <<>> }
CodeArgs == CodeSources \X CodeKeys \X CodeNames

InitCode ==
    /\ CrawlIdle
    /\ MainIdle
    /\ CallIdle
    /\ arg \in CodeArgs \X CodeArgs

\* from helpers import make_unique_code, then
\* code = make_unique_code("kingfood", product_key, normalized_name) for one
\* item: helpers.py (lines 1-412) defines no make_unique_code, so the import
\* raises ImportError and no code is returned.
CallMakeUniqueCode ==
    /\ called = "none"
    /\ called' = "make_unique_code"
    /\ raised' = "ImportError"
    /\ ret' = NoneVal
    /\ UNCHANGED <<crawlVars, arg, mainVars>>

\* the same import and call for another item
CallMakeUniqueCodeAgain ==
    /\ called = "make_unique_code"
    /\ called' = "make_unique_code twice"
    /\ raised' = "ImportError"
    /\ ret' = NoneVal
    /\ UNCHANGED <<crawlVars, arg, mainVars>>

NextCode == CallMakeUniqueCode \/ CallMakeUniqueCodeAgain

SpecCode == InitCode /\ [][NextCode]_vars

\* C14: make_unique_code, imported from helpers, returns a code for each of
\* the two calls (ret is the list of the two codes): different codes for
\* different normalized names under the same source and product key, and
\* the same code for the same three inputs.
C14_CodeTellsNamesApart ==
    called = "make_unique_code twice" =>
        /\ raised = "none"
        /\ ret # NoneVal
        /\ arg[1][1] = arg[2][1] /\ arg[1][2] = arg[2][2] /\ arg[1][3] # arg[2][3]
               => ret[1] # ret[2]
        /\ arg[1] = arg[2] => ret[1] = ret[2]

(***************************************************************************)
(* Direct calls of write_products_to_csv on lists of dictionaries.         *)
(***************************************************************************)
\* The records the five loop bodies build from the elements of MainPage.
CrawledRecords ==
    UNION { { crawl_bhx_record(MainPage[i]), crawl_mega_record(MainPage[i]),
              crawl_lotte_record(MainPage[i]), crawl_kingfood_record(MainPage[i]),
              crawl_coop_record(MainPage[i]) } : i \in DOMAIN MainPage }

\* Dictionaries that are no full records: two fields only, a field the
\* schema does not have, no field of the schema at all.
PartialProducts ==
    { [name |-> <<"x">>, price |-> 5],
      [name |-> <<"x">>, extra |-> <<"1">>],
      [extra |-> <<"1">>] }

\* The dictionaries of the generated lists: the five records of the first
\* element of MainPage and the partial ones.
CsvProducts ==
    { crawl_bhx_record(MainPage[1]), crawl_mega_record(MainPage[1]),
      crawl_lotte_record(MainPage[1]), crawl_kingfood_record(MainPage[1]),
      crawl_coop_record(MainPage[1]) } \cup PartialProducts

RECURSIVE ListsUpTo(_, _)
\* All lists of at most n members of S.
ListsUpTo(S, n) ==
    IF n = 0 THEN {<<>>}
    ELSE LET shorter == ListsUpTo(S, n - 1)
         IN  shorter \cup {Append(l, x) : l \in shorter, x \in S}

InitCsv ==
    /\ CrawlIdle
    /\ MainIdle
    /\ CallIdle
    /\ arg \in ListsUpTo(CsvProducts, MaxItems)

\* write_products_to_csv(products, output_path)
CallWriteProductsToCsv ==
    /\ called = "none"
    /\ called' = "write_products_to_csv"
    /\ ret' = write_products_to_csv(arg)
    /\ UNCHANGED <<crawlVars, arg, raised, mainVars>>

NextCsv == CallWriteProductsToCsv

SpecCsv == InitCsv /\ [][NextCsv]_vars

\* C15: every row write_products_to_csv writes has exactly the 16 fields
\* source, code, name, brand, normalized_name, unit, packing, size, capacity,
\* price, price_after_promotion, promotion, url, note, crawl_date,
\* product_key, in that order, with the empty string for a field the
\* dictionary does not have; every record the five crawlers build has exactly
\* these keys.
C15_SixteenFields ==
    LET Fields == << "source", "code", "name", "brand", "normalized_name", "unit",
                     "packing", "size", "capacity", "price", "price_after_promotion",
                     "promotion", "url", "note", "crawl_date", "product_key" >>
    IN  /\ \A r \in CrawledRecords : DOMAIN r = {Fields[j] : j \in 1..16}
        /\ called = "write_products_to_csv" =>
               /\ ret.header = Fields
               /\ Len(ret.rows) = Len(arg)
               /\ \A i \in 1..Len(arg) :
                      /\ Len(ret.rows[i]) = 16
                      /\ \A j \in 1..16 :
                             IF Fields[j] \in DOMAIN arg[i]
                             THEN ret.rows[i][j] = arg[i][Fields[j]]
                             ELSE ret.rows[i][j] = <<>>

\* A record of crawl_bhx and a dictionary with a name and a price only were
\* written: the second row has its two values in the third and tenth place
\* and the empty string elsewhere.
C15_Witness ==
    /\ called = "write_products_to_csv"
    /\ Len(arg) = 2
    /\ arg[1] = crawl_bhx_record(MainPage[1])
    /\ arg[2] = [name |-> <<"x">>, price |-> 5]
    /\ ret.rows[1][16] = arg[1].product_key
    /\ ret.rows[2][3] = <<"x">> /\ ret.rows[2][10] = 5
    /\ \A j \in (1..16) \ {3, 10} : ret.rows[2][j] = <<>>

(***************************************************************************)
(* Properties of the extractors, on the generated phrases.                 *)
(***************************************************************************)
\* C16: when the text has a number followed by "ml" (in any case, blanks
\* allowed between them) extract_capacity returns the digits of the leftmost
\* such number, as they stand, and "ml", whether or not a number followed by
\* "cl" stands before or after it; it returns the digits of a number followed
\* by "cl", and "cl", only when no number is followed by "ml", and "" when
\* neither occurs.  "330ml 33cl" and "33cl 330ml" both give "330ml".
C16_MlBeforeCl ==
    called = "extract_capacity" =>
        LET s == lower(arg)
            \* s[i..e] is a whole number, and blanks and then w follow it
            Number(i, e, w) ==
                /\ i <= e
                /\ \A m \in i..e : IsDigitCh(s[m])
                /\ i = 1 \/ ~IsDigitCh(s[i - 1])
                /\ e = Len(s) \/ ~IsDigitCh(s[e + 1])
                /\ \E k \in e..Len(s) :
                       /\ \A m \in (e + 1)..k : IsSpaceCh(s[m])
                       /\ StartsWithAt(s, k, w)
            Has(w) == \E i, e \in 1..Len(s) : Number(i, e, w)
            \* ret is the leftmost number followed by w, and w
            LeftmostWith(w) ==
                \E i, e \in 1..Len(s) :
                    /\ Number(i, e, w)
                    /\ \A i2, e2 \in 1..Len(s) : Number(i2, e2, w) => i <= i2
                    /\ ret = SubSeq(s, i, e) \o w
        IN  /\ Has(<<"m","l">>) => LeftmostWith(<<"m","l">>)
            /\ ~Has(<<"m","l">>) /\ Has(<<"c","l">>) => LeftmostWith(<<"c","l">>)
            /\ ~Has(<<"m","l">>) /\ ~Has(<<"c","l">>) => ret = <<>>
            /\ arg \in { <<"3","3","0","m","l"," ","3","3","c","l">>,
                         <<"3","3","c","l"," ","3","3","0","m","l">> }
                   => ret = <<"3","3","0","m","l">>

\* A text with "33cl" before "330ml" gave "330ml".
C16_Witness ==
    /\ called = "extract_capacity"
    /\ arg = <<"3","3","c","l"," ","3","3","0","m","l">>
    /\ ret = <<"3","3","0","m","l">>

\* C17: extract_unit decides by the keyword, not by its place: a name with
\* "thung" (with its mark, in any case) anywhere gives "Thung" (with its
\* mark) even when "lon" or "chai" also occurs, before it or after it; a name
\* with "lon" and without "thung" gives "Lon" even when "chai" stands first;
\* a name with "chai" and neither of the two gives "Chai".
C17_FixedPriority ==
    called = "extract_unit" =>
        LET s == lower(arg)
            Occurs(w) == \E k \in 1..(Len(s) - Len(w) + 1) : SubSeq(s, k, k + Len(w) - 1) = w
            thung == Occurs(<<"t","h","u:g","n","g">>)
            lon == Occurs(<<"l","o","n">>)
            chai == Occurs(<<"c","h","a","i">>)
        IN  /\ thung => ret = <<"T","h","u:g","n","g">>
            /\ ~thung /\ lon => ret = <<"L","o","n">>
            /\ ~thung /\ ~lon /\ chai => ret = <<"C","h","a","i">>

\* A name with "CHAI" before "lon" gave "Lon".
C17_Witness ==
    /\ called = "extract_unit"
    /\ arg = <<"C","H","A","I"," ","l","o","n">>
    /\ ret = <<"L","o","n">>

\* C18: extract_price_int returns, without raising, the integer read from
\* the digits that stand before the first "d" with a stroke, in their order:
\* every other character before it (".", ",", letters, blanks) is dropped,
\* nothing after it counts, and the result is 0 when the text is empty or no
\* digit stands before it.  "410.000d /24 lon 330ml" (d with its stroke)
\* gives 410000 and "abc" gives 0.
C18_DigitsBeforeFirstDong ==
    called = "extract_price_int" =>
        LET cuts == {k \in 1..Len(arg) : arg[k] = "d:-"}
            first == IF cuts = {} THEN Len(arg) + 1
                     ELSE CHOOSE k \in cuts : \A j \in cuts : k <= j
            \* the integer read from the digits among the first n characters
            \* that stand before the first "d" with a stroke
            value[n \in 0..Len(arg)] ==
                IF n = 0 THEN 0
                ELSE IF n < first /\ IsDigitCh(arg[n])
                THEN 10 * value[n - 1] + DigitTable[arg[n]]
                ELSE value[n - 1]
        IN  /\ raised = "none"
            /\ ret = value[Len(arg)]
            /\ (\A k \in 1..(first - 1) : ~IsDigitCh(arg[k])) => ret = 0
            /\ arg = <<"4","1","0",".","0","0","0","d:-"," ","/","2","4"," ",
                       "l","o","n"," ","3","3","0","m","l">> => ret = 410000
            /\ arg = <<"a","b","c">> => ret = 0

\* A price text with digits on both sides of the "d" with a stroke gave the
\* number before it.
C18_Witness ==
    /\ called = "extract_price_int"
    /\ arg = <<"4","1","d:-"," ","/","2","4">>
    /\ raised = "none"
    /\ ret = 41

\* C19: extract_promotion_from_text returns "" exactly when no "%" of the
\* text has a number before it (blanks allowed between them); otherwise it
\* returns the percentage of the number before the last such "%", never the
\* one of an earlier "%".  The number is the whole run of digits before the
\* "%", with the run of digits and the "." or "," before it when there is
\* one.
C19_LastPercentWins ==
    called = "extract_promotion_from_text" =>
        LET s == arg
            \* the last digit of the number that the "%" at p follows
            NumberEnd(p) ==
                {e \in 1..(p - 1) : /\ IsDigitCh(s[e])
                                    /\ \A m \in (e + 1)..(p - 1) : IsSpaceCh(s[m])}
            percents == {p \in 1..Len(s) : s[p] = "%" /\ NumberEnd(p) # {}}
            last == CHOOSE p \in percents : \A q \in percents : q <= p
            e == CHOOSE x \in NumberEnd(last) : TRUE
            RunStart(j) == CHOOSE b \in 1..j :
                               /\ \A m \in b..j : IsDigitCh(s[m])
                               /\ b = 1 \/ ~IsDigitCh(s[b - 1])
            b == RunStart(e)
            a == IF b >= 3 /\ s[b - 1] \in {".", ","} /\ IsDigitCh(s[b - 2])
                 THEN RunStart(b - 2) ELSE b
        IN  /\ raised = "none"
            /\ ret = <<>> <=> percents = {}
            /\ percents # {} => ret = RenderPercent(SubSeq(s, a, e))

\* A text with "12%" before "3%" gave "3%".
C19_Witness ==
    /\ called = "extract_promotion_from_text"
    /\ arg = <<"1","2","%","3","%">>
    /\ ret = <<"3","%">>

\* C20: extract_brand tries the overrides in the order 1664 Blanc, Ha Noi,
\* Sai Gon, Carlsberg, East West, Budweiser, Dalat Cider (the Vietnamese
\* names with their marks) and returns the first whose trigger the lowered
\* name has, whatever later overrides and whatever entries of BRANDS the
\* name also contains: a name with "1664" and "Heineken" gives "1664 Blanc".
C20_OverridesInOrder ==
    called = "extract_brand" =>
        LET s == lower(arg)
            Occurs(w) == \E k \in 1..(Len(s) - Len(w) + 1) : SubSeq(s, k, k + Len(w) - 1) = w
            trigger ==
                << Occurs(<<"1","6","6","4">>) \/ Occurs(<<"b","l","a","n","c">>)
                       \/ Occurs(<<"b","l","a","n","c","e">>),
                   Occurs(<<"h","a","n","o","i">>) \/ Occurs(<<"h","a:g"," ","n","o:dc","i">>),
                   Occurs(<<"s","a","i","g","o","n">>)
                       \/ Occurs(<<"s","a:g","i"," ","g","o:g","n">>),
                   Occurs(<<"c","a","r","l","s","b","e","r","g">>)
                       \/ Occurs(<<"c","a","r","s","b","e","r","g">>),
                   Occurs(<<"f","a","r"," ","e","a","s","t">>)
                       \/ Occurs(<<"e","a","s","t"," ","w","e","s","t">>)
                       \/ Occurs(<<"e","a","s","t","w","e","s","t">>),
                   Occurs(<<"b","u","d"," ">>)
                       \/ (Len(s) >= 3 /\ SubSeq(s, 1, 3) = <<"b","u","d">>),
                   Occurs(<<"d","a","l","a","t"," ","c","i","d","e","r">>)
                       \/ Occurs(<<"d","a"," ","l","a","t"," ","c","i","d","e","r">>) >>
            override ==
                << <<"1","6","6","4"," ","B","l","a","n","c">>,
                   <<"H","a:g"," ","N","o:dc","i">>,
                   <<"S","a:g","i"," ","G","o:g","n">>,
                   <<"C","a","r","l","s","b","e","r","g">>,
                   <<"E","a","s","t"," ","W","e","s","t">>,
                   <<"B","u","d","w","e","i","s","e","r">>,
                   <<"D","a","l","a","t"," ","C","i","d","e","r">> >>
        IN  /\ \A i \in 1..7 :
                   (trigger[i] /\ \A j \in 1..(i - 1) : ~trigger[j]) => ret = override[i]
            /\ (Occurs(<<"1","6","6","4">>) /\ Occurs(<<"h","e","i","n","e","k","e","n">>))
                   => ret = <<"1","6","6","4"," ","B","l","a","n","c">>

\* A name with "saigon", "Heineken" and "1664", in this order, gave
\* "1664 Blanc".
C20_Witness ==
    /\ called = "extract_brand"
    /\ arg = <<"s","a","i","g","o","n","H","e","i","n","e","k","e","n","1","6","6","4">>
    /\ ret = <<"1","6","6","4"," ","B","l","a","n","c">>

(***************************************************************************)
(* Properties of main().                                                   *)
(***************************************************************************)
\* C21: main handles the names of --sources, lowered, in the order given,
\* or bhx, mega, lotte, kingfood, coop in this order when one of the names
\* is "all" in any letter case: every name that is one of the five has its
\* crawler run, every other name is skipped with a warning and the names
\* after it are still handled; the combined list is the products of the
\* crawlers run, in the order of the runs; the file is written once all
\* names are handled.
C21_SourcesInOrder ==
    main \in {"loop", "done"} =>
        LET lowered == [i \in 1..Len(sources) |-> lower(sources[i])]
            five == << <<"b","h","x">>, <<"m","e","g","a">>, <<"l","o","t","t","e">>,
                       <<"k","i","n","g","f","o","o","d">>, <<"c","o","o","p">> >>
            selected == IF \E i \in 1..Len(lowered) : lowered[i] = <<"a","l","l">>
                        THEN five ELSE lowered
            known(s) == \E i \in 1..5 : five[i] = s
            crawler(s) == CASE s = five[1] -> "bhx" [] s = five[2] -> "mega"
                            [] s = five[3] -> "lotte" [] s = five[4] -> "kingfood"
                            [] s = five[5] -> "coop"
            site(s) == CASE s = five[1] -> "bachhoaxanh" [] s = five[2] -> "megamarket"
                         [] s = five[3] -> "lottemart" [] s = five[4] -> "kingfoodmart"
                         [] s = five[5] -> "cooponline"
            \* the names handled so far, and the crawlers that have returned
            handled == SelectSeq(log, LAMBDA m : Len(m.args) = 1)
            collected == SelectSeq(log, LAMBDA m : Len(m.args) = 2)
            runs == SelectSeq(handled, LAMBDA m : m.level = "INFO")
            \* the number of products of the first j crawlers that returned
            total[j \in 0..Len(collected)] ==
                IF j = 0 THEN 0 ELSE total[j - 1] + collected[j].args[2]
        IN  /\ Len(handled) <= Len(selected)
            /\ \A i \in 1..Len(handled) :
                   /\ handled[i].args[1] = selected[i]
                   /\ handled[i].level = (IF known(selected[i]) THEN "INFO" ELSE "WARNING")
            /\ main = "done" => Len(handled) = Len(selected) /\ running = "none"
            /\ running # "none" =>
                   /\ Len(collected) = Len(runs) - 1
                   /\ running = crawler(runs[Len(runs)].args[1])
            /\ running = "none" => Len(collected) = Len(runs)
            /\ \A j \in 1..Len(collected) : collected[j].args[1] = runs[j].args[1]
            /\ Len(all_products) = total[Len(collected)]
            /\ \A j \in 1..Len(collected) :
                   \A k \in (total[j - 1] + 1)..total[j] :
                       all_products[k].source = site(collected[j].args[1])

\* main was given COOP, xyz and Bhx: it ran crawl_coop, skipped xyz with a
\* warning, ran crawl_bhx and combined their products in this order.
C21_Witness ==
    /\ main = "done"
    /\ sources = << <<"C","O","O","P">>, <<"x","y","z">>, <<"B","h","x">> >>
    /\ Len(log) = 5
    /\ log[3].level = "WARNING"
    /\ Len(all_products) = 3
    /\ all_products[1].source = "cooponline"
    /\ all_products[3].source = "bachhoaxanh"

\* C22: when the lowered name has a number directly before "lon" or "chai"
\* (blanks allowed between them) extract_packing_quantity returns the
\* leftmost such number, whole and as it stands, also when another number
\* follows "thung", "loc" or "hop" (with their marks) earlier in the name.
C22_NumberBeforeLonFirst ==
    called = "extract_packing_quantity" =>
        LET s == lower(arg)
            words == { <<"l","o","n">>, <<"c","h","a","i">> }
            \* s[i..e] is a whole number, and blanks and then "lon" or "chai" follow
            Number(i, e) ==
                /\ i <= e
                /\ \A m \in i..e : IsDigitCh(s[m])
                /\ i = 1 \/ ~IsDigitCh(s[i - 1])
                /\ e = Len(s) \/ ~IsDigitCh(s[e + 1])
                /\ \E k \in e..Len(s) : \E w \in words :
                       /\ \A m \in (e + 1)..k : IsSpaceCh(s[m])
                       /\ k + Len(w) <= Len(s)
                       /\ SubSeq(s, k + 1, k + Len(w)) = w
        IN  (\E i, e \in 1..Len(s) : Number(i, e)) =>
                /\ raised = "none"
                /\ \E i, e \in 1..Len(s) :
                       /\ Number(i, e)
                       /\ \A i2, e2 \in 1..Len(s) : Number(i2, e2) => i <= i2
                       /\ ret = SubSeq(s, i, e)

\* A name with "loc 6" (with its marks) before "24 lon" gave "24".
C22_Witness ==
    /\ called = "extract_packing_quantity"
    /\ arg = <<"l","o:ca","c"," ","6"," ","2","4"," ","l","o","n">>
    /\ ret = <<"2","4">>

\* C23: when the lowered name has no number directly before "lon" or "chai"
\* and no number directly after "thung", "loc" or "hop" (the three with
\* their marks; blanks allowed between word and number),
\* extract_packing_quantity returns the first whole number, from the left,
\* that is not followed by "ml" or "cl" (blanks allowed), and "" when every
\* number is such a capacity or the name has no number.
C23_FirstNonCapacityNumber ==
    called = "extract_packing_quantity" =>
        LET s == lower(arg)
            At(k, w) == k + Len(w) <= Len(s) /\ SubSeq(s, k + 1, k + Len(w)) = w
            \* s[i..e] is a whole number
            Number(i, e) ==
                /\ i <= e
                /\ \A m \in i..e : IsDigitCh(s[m])
                /\ i = 1 \/ ~IsDigitCh(s[i - 1])
                /\ e = Len(s) \/ ~IsDigitCh(s[e + 1])
            \* blanks and then one of the words follow position e
            Before(e, words) ==
                \E k \in e..Len(s) : /\ \A m \in (e + 1)..k : IsSpaceCh(s[m])
                                     /\ \E w \in words : At(k, w)
            \* one of the words, blanks and then a digit stand before position i
            After(i, words) ==
                \E k \in 0..(i - 1) : \E w \in words :
                    /\ At(k, w)
                    /\ k + Len(w) < i
                    /\ \A m \in (k + Len(w) + 1)..(i - 1) : IsSpaceCh(s[m])
            rule1 == \E i, e \in 1..Len(s) :
                         Number(i, e) /\ Before(e, { <<"l","o","n">>, <<"c","h","a","i">> })
            rule2 == \E i \in 1..Len(s) :
                         /\ IsDigitCh(s[i])
                         /\ After(i, { <<"t","h","u:g","n","g">>, <<"l","o:ca","c">>,
                                       <<"h","o:dc","p">> })
            Packing(i, e) == Number(i, e) /\ ~Before(e, { <<"m","l">>, <<"c","l">> })
        IN  (~rule1 /\ ~rule2) =>
                /\ raised = "none"
                /\ (\E i, e \in 1..Len(s) : Packing(i, e)) =>
                       \E i, e \in 1..Len(s) :
                           /\ Packing(i, e)
                           /\ \A i2, e2 \in 1..Len(s) : Packing(i2, e2) => i <= i2
                           /\ ret = SubSeq(s, i, e)
                /\ ~(\E i, e \in 1..Len(s) : Packing(i, e)) => ret = <<>>

\* C24: when some token of the name, delimited by whitespace, starts with
\* "bud" in any letter case, and none of the overrides 1664 Blanc, Ha Noi,
\* Sai Gon, Carlsberg and East West applies, extract_brand returns
\* "Budweiser", wherever the token stands in the name.
C24_BudTokenAnywhere ==
    called = "extract_brand" =>
        LET s == lower(arg)
            Occurs(w) == \E k \in 1..(Len(s) - Len(w) + 1) : SubSeq(s, k, k + Len(w) - 1) = w
            BudToken == \E k \in 1..(Len(s) - 2) :
                            /\ SubSeq(s, k, k + 2) = <<"b","u","d">>
                            /\ k = 1 \/ IsSpaceCh(s[k - 1])
            earlier ==
                \/ Occurs(<<"1","6","6","4">>) \/ Occurs(<<"b","l","a","n","c">>)
                \/ Occurs(<<"h","a","n","o","i">>) \/ Occurs(<<"h","a:g"," ","n","o:dc","i">>)
                \/ Occurs(<<"s","a","i","g","o","n">>)
                \/ Occurs(<<"s","a:g","i"," ","g","o:g","n">>)
                \/ Occurs(<<"c","a","r","l","s","b","e","r","g">>)
                \/ Occurs(<<"c","a","r","s","b","e","r","g">>)
                \/ Occurs(<<"f","a","r"," ","e","a","s","t">>)
                \/ Occurs(<<"e","a","s","t"," ","w","e","s","t">>)
                \/ Occurs(<<"e","a","s","t","w","e","s","t">>)
        IN  (BudToken /\ ~earlier) => ret = <<"B","u","d","w","e","i","s","e","r">>

\* C25: when no override applies (none of the seven tests of extract_brand
\* holds of the lowered name) extract_brand returns the first entry of
\* BRANDS, in list order, whose lowered form occurs in the lowered name, and
\* "" when no entry does: a name with "Truc Bach Sleek" (with its marks)
\* gives that entry, not the later entry "Truc Bach".  The result is always
\* "", one of the seven override names or an entry of BRANDS.
C25_FirstVocabularyEntry ==
    called = "extract_brand" =>
        LET s == lower(arg)
            Occurs(w) == \E k \in 1..(Len(s) - Len(w) + 1) : SubSeq(s, k, k + Len(w) - 1) = w
            applies ==
                \/ Occurs(<<"1","6","6","4">>) \/ Occurs(<<"b","l","a","n","c">>)
                \/ Occurs(<<"h","a","n","o","i">>) \/ Occurs(<<"h","a:g"," ","n","o:dc","i">>)
                \/ Occurs(<<"s","a","i","g","o","n">>)
                \/ Occurs(<<"s","a:g","i"," ","g","o:g","n">>)
                \/ Occurs(<<"c","a","r","l","s","b","e","r","g">>)
                \/ Occurs(<<"c","a","r","s","b","e","r","g">>)
                \/ Occurs(<<"f","a","r"," ","e","a","s","t">>)
                \/ Occurs(<<"e","a","s","t"," ","w","e","s","t">>)
                \/ Occurs(<<"e","a","s","t","w","e","s","t">>)
                \/ Occurs(<<"b","u","d"," ">>)
                \/ (Len(s) >= 3 /\ SubSeq(s, 1, 3) = <<"b","u","d">>)
                \/ Occurs(<<"d","a","l","a","t"," ","c","i","d","e","r">>)
                \/ Occurs(<<"d","a"," ","l","a","t"," ","c","i","d","e","r">>)
            listed == {i \in 1..Len(BRANDS) : Occurs(lower(BRANDS[i]))}
            names == { <<"1","6","6","4"," ","B","l","a","n","c">>,
                       <<"H","a:g"," ","N","o:dc","i">>,
                       <<"S","a:g","i"," ","G","o:g","n">>,
                       <<"C","a","r","l","s","b","e","r","g">>,
                       <<"E","a","s","t"," ","W","e","s","t">>,
                       <<"B","u","d","w","e","i","s","e","r">>,
                       <<"D","a","l","a","t"," ","C","i","d","e","r">> }
        IN  /\ (~applies /\ listed # {}) =>
                   \E i \in listed : (\A j \in listed : i <= j) /\ ret = BRANDS[i]
            /\ (~applies /\ listed = {}) => ret = <<>>
            /\ \/ ret = <<>>
               \/ ret \in names
               \/ \E i \in 1..Len(BRANDS) : ret = BRANDS[i]

\* A name with "Truc Bach Sleek" (with its marks) gave that entry.
C25_Witness ==
    /\ called = "extract_brand"
    /\ arg = <<"B","i","a"," ","T","r","u:a","c"," ","B","a:d","c","h"," ",
               "S","l","e","e","k"," ","3","3","0","m","l">>
    /\ ret = <<"T","r","u:a","c"," ","B","a:d","c","h"," ","S","l","e","e","k">>

\* C26: extract_promotion_from_text writes the number before the last "%"
\* with a period for its decimal separator, comma or period: a whole value
\* ("3", "3.0", "3,00") without its fraction, "3%", and every other value
\* with the digits of its fraction exactly as matched ("1,98" gives
\* "1.98%").
C26_DecimalsAsMatched ==
    called = "extract_promotion_from_text" =>
        LET s == arg
            NumberEnd(p) ==
                {e \in 1..(p - 1) : /\ IsDigitCh(s[e])
                                    /\ \A m \in (e + 1)..(p - 1) : IsSpaceCh(s[m])}
            percents == {p \in 1..Len(s) : s[p] = "%" /\ NumberEnd(p) # {}}
            last == CHOOSE p \in percents : \A q \in percents : q <= p
            e == CHOOSE x \in NumberEnd(last) : TRUE
            RunStart(j) == CHOOSE b \in 1..j :
                               /\ \A m \in b..j : IsDigitCh(s[m])
                               /\ b = 1 \/ ~IsDigitCh(s[b - 1])
            b == RunStart(e)
            decimal == b >= 3 /\ s[b - 1] \in {".", ","} /\ IsDigitCh(s[b - 2])
            whole == IF decimal THEN SubSeq(s, RunStart(b - 2), b - 2) ELSE SubSeq(s, b, e)
            frac == IF decimal THEN SubSeq(s, b, e) ELSE <<>>
            \* the whole part without the zeros at its head
            zeros == CHOOSE z \in 0..(Len(whole) - 1) :
                         /\ \A m \in 1..z : whole[m] = "0"
                         /\ z = Len(whole) - 1 \/ whole[z + 1] # "0"
            number == SubSeq(whole, zeros + 1, Len(whole))
        IN  percents # {} =>
                IF \A m \in 1..Len(frac) : frac[m] = "0"
                THEN ret = number \o <<"%">>
                ELSE ret = number \o <<".">> \o frac \o <<"%">>

(***************************************************************************)
(* The keys of the records and the keys of direct calls: the crawlers run  *)
(* as in Spec, or make_product_key is called as in SpecKey.                *)
(***************************************************************************)
InitRecordOrKey == Init \/ InitKey

NextRecordOrKey ==
    \/ arg = NoneVal /\ Next
    \/ arg # NoneVal /\ NextKey

SpecRecordOrKey == InitRecordOrKey /\ [][NextRecordOrKey]_vars

\* C27: in every record a crawler has built, packing is one of "1", "4",
\* "6", "12", "20", "24", product_key is not empty and its last part, after
\* the last "_", is the packing; a direct call of make_product_key returns
\* the empty key only when each of its three inputs is None or empty once
\* stripped.
C27_RecordKeyNotEmpty ==
    /\ \A i \in DOMAIN products :
           LET key == products[i].product_key
               packing == products[i].packing
               n == Len(key) - Len(packing)
           IN  /\ packing \in { <<"1">>, <<"4">>, <<"6">>, <<"1","2">>, <<"2","0">>,
                                <<"2","4">> }
               /\ key # <<>>
               /\ n >= 0
               /\ SubSeq(key, n + 1, Len(key)) = packing
               /\ n = 0 \/ key[n] = "_"
    /\ (called = "make_product_key" /\ ret = <<>>) =>
           \A j \in 1..3 :
               \/ arg[j] = NoneVal
               \/ \A m \in 1..Len(arg[j]) : IsSpaceCh(arg[j][m])

\* A crawler built the record of an element without a name: no brand, no
\* capacity, packing "1", and the key is "1".
C27_Witness ==
    /\ Len(products) = 1
    /\ products[1].name = <<>>
    /\ products[1].brand = <<>>
    /\ products[1].capacity = <<>>
    /\ products[1].packing = <<"1">>
    /\ products[1].product_key = <<"1">>

(***************************************************************************)
(* make_product_key on what the extractors return.                         *)
(***************************************************************************)
\* Names with capacities of both units, with digits that are also a brand
\* ("333") or a packing ("24", "12", "1"), and a name without a capacity.
CapacityTexts ==
    { <<>>,
      <<"B","i","a"," ","3","3","0","m","l">>,
      <<"3","3"," ","C","L">>,
      <<"3","3","c","l"," ","3","3","0","m","l">>,
      <<"2","4","m","l">>,
      <<"3","3","3"," ","m","l">>,
      <<"3","3","3","c","l">>,
      <<"1","M","L">>,
      <<"1","2"," ","c","l">> }

\* brand = extract_brand(name), capacity = extract_capacity(name), packing
\* validated against the allow-list.
ExtractedBrands == {extract_brand(name) : name \in BrandArgs \cup Range(BRANDS)}
ExtractedCapacities == {extract_capacity(name) : name \in CapacityTexts}
ExtractedTriples == ExtractedBrands \X ExtractedCapacities \X ALLOWED_PACKINGS

\* The key of every such triple.
ExtractedKeys == {<<t, make_product_key(t[1], t[2], t[3])>> : t \in ExtractedTriples}

InitExtractedKey ==
    /\ CrawlIdle
    /\ MainIdle
    /\ CallIdle
    /\ arg \in ExtractedTriples

NextExtractedKey == CallMakeProductKey

SpecExtractedKey == InitExtractedKey /\ [][NextExtractedKey]_vars

\* C28: on a brand that extract_brand returns ("", an override name or an
\* entry of BRANDS), a capacity that extract_capacity returns ("" or digits
\* and "ml" or "cl") and a packing of the allow-list, make_product_key is
\* injective: a triple with the same key as the triple of the call is that
\* triple, although empty parts leave no trace in the key.
C28_KeyInjective ==
    called = "make_product_key" =>
        \A p \in ExtractedKeys : p[2] = ret => p[1] = arg

\* The key "333_24" of the brand "333" without a capacity was built; the
\* capacity "333ml" without a brand gives another key.
C28_Witness ==
    /\ called = "make_product_key"
    /\ arg = << <<"3","3","3">>, <<>>, <<"2","4">> >>
    /\ ret = <<"3","3","3","_","2","4">>
    /\ << <<>>, <<"3","3","3","m","l">>, <<"2","4">> >> \in ExtractedTriples

\* C29: main writes the file only after the crawler of every selected
\* source has returned: while a crawler is still to run or running there is
\* no file, and when a crawler call raises, the exception leaves main and no
\* file is written, then or later, whatever products the crawlers before it
\* had returned.
C29_NoFileUnlessAllReturned ==
    /\ [](LET lowered == [i \in 1..Len(sources) |-> lower(sources[i])]
              five == { <<"b","h","x">>, <<"m","e","g","a">>, <<"l","o","t","t","e">>,
                        <<"k","i","n","g","f","o","o","d">>, <<"c","o","o","p">> }
              all == \E i \in 1..Len(lowered) : lowered[i] = <<"a","l","l">>
              \* how many crawler calls the command line asks for
              selected == IF all THEN 5
                          ELSE Len(SelectSeq(lowered, LAMBDA s : s \in five))
              returned == Len(SelectSeq(log, LAMBDA m : Len(m.args) = 2))
          IN  /\ csv_file # NoFile =>
                     /\ main = "done"
                     /\ outcome # "raised"
                     /\ running = "none"
                     /\ returned = selected
                     /\ Len(csv_file.rows) = Len(all_products)
              /\ outcome = "raised" => main = "raised" /\ csv_file = NoFile)
    /\ [][main = "raised" => main' = "raised" /\ csv_file' = NoFile]_vars

\* crawl_bhx returned two products, then crawl_coop raised: main ended with
\* the exception and without a file.
C29_Witness ==
    /\ main = "raised"
    /\ outcome = "raised"
    /\ Len(all_products) = 2
    /\ all_products[1].source = "bachhoaxanh"
    /\ srcs = << <<"c","o","o","p">> >>
    /\ csv_file = NoFile

\* C30: every call of a crawler quits the driver it built exactly once
\* before control leaves the function: while the crawler runs the driver is
\* open and not yet quit, and the step that leaves the function, by return
\* or by an exception of the try block going to the caller, quits it, once;
\* a call that could not build its driver leaves with no driver and no quit.
C30_DriverQuitOnce ==
    /\ [](/\ running # "none" => driver = "open" /\ quits = 0
          /\ (running = "none" /\ driver # "none") => driver = "quit" /\ quits = 1
          /\ driver = "none" => quits = 0 /\ outcome \in {"none", "raised"})
    /\ [][(running # "none" /\ running' = "none") =>
              /\ outcome' \in {"returned", "raised"}
              /\ driver' = "quit"
              /\ quits' = 1]_vars

\* A crawler call ended with an exception: its driver is quit, once.
C30_Witness ==
    /\ running = "none"
    /\ outcome = "raised"
    /\ driver = "quit"
    /\ quits = 1
====
